---- MODULE Spec2Model ----
(***************************************************************************)
(* Tuner arbitration and fan-out of mpdcast-dab.                           *)
(*                                                                         *)
(*   RadioController  welle_python/radio_controller.py                     *)
(*   DabDevice        welle_python/welle_io.py         (the tuner lease)   *)
(*   DabScanner       welle_python/dab_scanner.py, dabserver/dab_scanner.py*)
(*   ServiceController dabserver/service_controller.py                     *)
(*                                                                         *)
(* Everything runs on one asyncio event loop: a coroutine runs atomically  *)
(* from one suspension point to the next, so every action below is the     *)
(* code between two awaits that really suspend.                           *)
(***************************************************************************)
EXTENDS Integers, Sequences, FiniteSets, TLC

\* ------------------------------------------------------------------ bounds
\* polls of _wait_for_channel that the model follows (the code polls
\* 2 * PROGRAM_DISCOVERY_TIMEOUT times)
MaxPolls == 1
\* deferred-reset tasks that can be alive at the same time
MaxTasks == 1
\* largest subscriber count of one handler that the model follows, and how
\* far below zero it follows one (a count can leak both ways without end)
MaxSubscribers == 2
MaxDeficit == 0
\* audio frames the driver delivers to one ServiceController
MaxFrames == 11
\* dynamic labels, and MOT images, the driver delivers to it
MaxMeta == 1
MaxPending == 1

\* ------------------------------------------------------------ world model
\* channel names the driver enumerates; NoCh is "no channel" ('' and None,
\* both falsy in the code)
NoCh == "-"
AllChannelNames == <<"A", "B">>
Channels == {AllChannelNames[i] : i \in 1..Len(AllChannelNames)}

\* the services on air, by service id: both in the ensemble of channel A,
\* channel B carries none
Sids == {1, 2}
ChannelOf(sid) == "A"

\* the label the driver reports for a service: padded with blanks
DriverLabel(sid) ==
  CASE sid = 1 -> <<"S", " ", " ">>
    [] OTHER   -> <<"T", " ">>

\* the names a client can ask for
Names == {<<"S">>, <<"T">>}

\* callers of the radio controller: audio requests, and the admin stop()
Clients == {"c1", "c2"}
Admin == "adm"
Procs == Clients \cup {Admin}
TaskIds == 1..MaxTasks
NoTask == 0
\* _channel_reset_task still refers to a task that was cancelled
DeadTask == MaxTasks + 1
\* the name a deferred-reset task has among the waiters of the lock
TL(t) == ToString(t)

\* identities of WavProgrammeHandler objects; 0 is None. An identity that
\* nothing refers to any more is reused (as CPython reuses addresses). The
\* identity tells the service the object was created for.
NoHandler == 0
HandlerIds == 1..(Cardinality(Sids) * (2 + Cardinality(Clients)))
SidOf(h) == ((h - 1) % Cardinality(Sids)) + 1

VARIABLES
  \* DabDevice / driver
  owner,        \* _forwarder.forward_object: "none" (the stub), "rc", "scanner"
  drvChannel,   \* channel the driver is tuned to, NoCh when untuned
  drvSubs,      \* service ids the driver delivers frames for
  \* RadioController
  chanName,     \* _channel.name
  programs,     \* _programs: sequence (insertion order) of [sid, name]
  handlers,     \* _programme_handlers: sid -> handler identity, NoHandler when absent
  subscribers,  \* handler identity -> WavProgrammeHandler.subscribers
  released,     \* handler identities with _delete_in_progress set
  cancelSet,    \* _cancel_delayed_channel_reset.is_set()
  resetRef,     \* _channel_reset_task: a task id, NoTask when None
  doneCb,       \* a remove_ref done-callback is scheduled
  task,         \* the _reset_later_if_no_handler tasks: id -> [pc, target, heard, stale]
  lockHolder,   \* _subscription_lock: holder, "none" when free
  lockQueue,    \* _subscription_lock: waiters, first in first out
  \* callers
  pc,           \* caller -> position
  arg,          \* caller -> [ch, name, polls] of the call in progress
  held,         \* client -> handler the last subscribe returned
  torn,         \* the handler an unsubscribe tore down, while a drain is pending
  resp,         \* client -> HTTP status the last step answered it with, 0 when none
  \* DabScanner
  scanTask,     \* _scanner_task is not None
  scanPc,       \* position of _run_scan
  scanIdx,      \* index into _all_channel_names
  isSignal,     \* _is_signal
  scanResults,  \* scan_results: channel -> (sid -> name, <<>> when unnamed)
  serviceCount, \* service_count of the running _run_scan
  pending,      \* callbacks of the driver thread handed to the event loop
                \* (run_coroutine_threadsafe) that have not run yet
  shutdownInProgress, \* DabServer._shutdown_in_progress
  \* what the last step asked of the device, wrote to the log and set as the
  \* scanner's status, in call order
  drvLog,
  \* one ServiceController and its readers
  nextFrame,    \* _audio_buffer.next_frame
  bufData,      \* _audio_buffer.data
  produced,     \* frames delivered so far
  deleteInProgress, \* _delete_in_progress
  evSet,        \* [audio, picture, label] -> Event.is_set()
  curLabel,     \* data.label as a version number
  curPicture,   \* data.picture as a version number
  sampleRate,   \* data.sample_rate
  wavHeader,    \* per audio request: what it has written to its response
  \* MpdCaster
  mpdPlayer,    \* the MPD server: state 'play' or not, current song, and
                \* whether idle() has a change to report
  castDev,      \* _cast: the two device handles, the app on the device, the
                \* media event and whether media_status has a session id
  mirror,       \* run(): where it is, and the locals of the mirror loop
  updater,      \* _updater and _dabserver_current_station
  castLog,      \* the handlers run and the commands sent to the cast device
                \* in the last step
  rpc,          \* reader -> position
  rstart,       \* reader -> start_frame of the call
  rsnap,        \* reader -> label/picture version when the call began
  rret          \* reader -> result of the last call

rcVars == <<owner, drvChannel, drvSubs, chanName, programs, handlers, subscribers,
            released, cancelSet, resetRef, doneCb, task, lockHolder, lockQueue,
            pc, arg, held, torn, resp, shutdownInProgress, drvLog>>
scanVars == <<scanTask, scanPc, scanIdx, isSignal, scanResults, serviceCount, pending>>
castVars == <<mpdPlayer, castDev, mirror, updater, castLog>>
svcVars == <<nextFrame, bufData, produced, deleteInProgress, evSet, curLabel,
             curPicture, sampleRate, rpc, rstart, rsnap, rret, wavHeader>>
scVars == <<svcVars, castVars>>
vars == <<rcVars, scanVars, scVars>>

\* ------------------------------------------------------- working records
\* The device and controller fields an operation reads and writes, as one
\* record, so that the synchronous helpers of the code are operators on it.
\* log collects the device calls of the step, fit is FALSE when the step
\* would need more deferred-reset tasks than MaxTasks.
Cur ==
  [owner |-> owner, drv |-> drvChannel, drvSubs |-> drvSubs, chan |-> chanName,
   programs |-> programs, handlers |-> handlers, subscribers |-> subscribers,
   released |-> released, cancel |-> cancelSet, ref |-> resetRef, doneCb |-> doneCb,
   task |-> task, lockH |-> lockHolder, lockQ |-> lockQueue,
   shutdown |-> shutdownInProgress, log |-> <<>>, fit |-> TRUE]

\* A task: its position, its reset_target_channel, and two notes about its
\* history: heard - a subscribe for the target channel was under way when the
\* wait began; stale - the channel has been reset by someone else since the
\* task was created.
FreeTask == [pc |-> "free", target |-> NoCh, heard |-> FALSE, stale |-> FALSE]
NewTask == [FreeTask EXCEPT !.pc = "created"]

Logged(s, op, by, ch, sid) ==
  [s EXCEPT !.log = Append(@, [op |-> op, by |-> by, ch |-> ch, sid |-> sid,
                               lease |-> s.owner, chan |-> s.drv])]

\* ------------------------------------------------------------- DabDevice
AquireOk(s) == s.owner = "none"

AquireNow(s, who) ==
  LET l == Logged(s, "aquire_now", who, NoCh, 0)
  IN  IF AquireOk(s) THEN [l EXCEPT !.owner = who] ELSE l

Release(s, who) ==
  LET l == Logged(s, "release", who, NoCh, 0)
  IN  IF s.owner # "none" THEN [l EXCEPT !.owner = "none"] ELSE l

\* set_channel: ok is the driver's answer; untuning ('') is taken to succeed
SetChannel(s, who, ch, ok) ==
  LET l == Logged(s, "set_channel", who, ch, 0)
  IN  IF ok THEN [l EXCEPT !.drv = ch] ELSE l

DevSubscribe(s, sid, ok) ==
  LET l == Logged(s, "subscribe_program", "rc", NoCh, sid)
  IN  IF ok THEN [l EXCEPT !.drvSubs = @ \cup {sid}] ELSE l

DevUnsubscribe(s, sid) ==
  LET l == Logged(s, "unsubscribe_program", "rc", NoCh, sid)
  IN  [l EXCEPT !.drvSubs = @ \ {sid}]

\* get_service_name: the driver knows the services of the tuned ensemble
GetServiceName(sid, drv) == IF ChannelOf(sid) = drv THEN DriverLabel(sid) ELSE <<>>

\* str.rstrip()
RECURSIVE RStrip(_)
RStrip(str) ==
  IF str = <<>> THEN <<>>
  ELSE IF str[Len(str)] = " " THEN RStrip(SubSeq(str, 1, Len(str) - 1))
  ELSE str

\* ------------------------------------------------------- asyncio helpers
\* Event.set(): the futures of the tasks waiting in wait_for get their result
EventSet(s) ==
  [s EXCEPT !.cancel = TRUE,
            !.task = [t \in TaskIds |->
                        IF s.task[t].pc = "waiting"
                        THEN [s.task[t] EXCEPT !.pc = "woken"] ELSE s.task[t]]]

\* Lock.release(): the lock goes to the first waiter
LockRelease(s) ==
  IF s.lockQ = <<>> THEN [s EXCEPT !.lockH = "none"]
  ELSE [s EXCEPT !.lockH = Head(s.lockQ), !.lockQ = Tail(s.lockQ)]

RECURSIVE Without(_, _)
Without(q, x) ==
  IF q = <<>> THEN <<>>
  ELSE IF Head(q) = x THEN Without(Tail(q), x)
  ELSE <<Head(q)>> \o Without(Tail(q), x)

\* a waiter of the lock is cancelled: it leaves the queue, or passes the lock
\* on when it had just been handed it
LockAbandon(s, x) ==
  IF s.lockH = x THEN LockRelease(s) ELSE [s EXCEPT !.lockQ = Without(@, x)]

\* Task.cancel() on a deferred-reset task: it ends at its next step without
\* running any more of its body; its done-callback is scheduled
CancelTask(s, t) ==
  IF t \notin TaskIds THEN s
  ELSE LET a == IF s.task[t].pc = "lockwait" THEN LockAbandon(s, TL(t)) ELSE s
       IN  [a EXCEPT !.task[t] = FreeTask, !.doneCb = TRUE, !.ref = DeadTask]

\* ------------------------------------------------------- RadioController
ResetChannel(s) ==
  LET a == SetChannel(s, "rc", NoCh, TRUE)
      b == [a EXCEPT !.chan = NoCh, !.programs = <<>>,
                     !.task = [t \in TaskIds |->
                                 IF s.task[t].pc = "free" THEN s.task[t]
                                 ELSE [s.task[t] EXCEPT !.stale = TRUE]]]
  IN  Release(b, "rc")

\* _tune_channel after its look at the pending reset: [s, ok]
TuneFrom(s1, channel, tuneOk) ==
  IF s1.chan # NoCh
  THEN IF s1.chan # channel
       THEN [s |-> Logged(s1, "warning", "rc", channel, 0), ok |-> FALSE]
       ELSE [s |-> s1, ok |-> TRUE]
  ELSE IF ~AquireOk(s1) THEN [s |-> AquireNow(s1, "rc"), ok |-> FALSE]
  ELSE LET s2 == SetChannel(AquireNow(s1, "rc"), "rc", channel, tuneOk)
       IN  IF ~tuneOk THEN [s |-> Release(s2, "rc"), ok |-> FALSE]
           ELSE [s |-> [s2 EXCEPT !.chan = channel], ok |-> TRUE]

\* a _tune_channel that takes the tuner for the new channel whether or not a
\* reset is pending
TuneChannelPreempt(s, channel, tuneOk) ==
  TuneFrom(EventSet(IF s.chan # channel THEN ResetChannel(s) ELSE s), channel, tuneOk)

\* a _tune_channel that carries out every pending reset, also that of the
\* channel asked for
TuneChannelFlush(s, channel, tuneOk) ==
  TuneFrom(IF ~s.cancel THEN EventSet(ResetChannel(s)) ELSE s, channel, tuneOk)

\* _tune_channel: [s, ok]
TuneChannel(s, channel, tuneOk) ==
  TuneFrom(IF ~s.cancel
           THEN EventSet(IF s.chan # channel THEN ResetChannel(s) ELSE s)
           ELSE s,
           channel, tuneOk)

\* _start_delayed_reset: a new task, and _channel_reset_task refers to it
StartDelayedReset(s) ==
  LET free == {t \in TaskIds : s.task[t].pc = "free"}
  IN  IF free = {} THEN [s EXCEPT !.fit = FALSE]
      ELSE LET t == CHOOSE x \in free : \A y \in free : x <= y
           IN  [s EXCEPT !.task[t] = NewTask, !.ref = t]

\* _get_program_id: [programs, pid]; pid 0 is None. Names are filled in on
\* the way, in dict order, up to the first match.
RECURSIVE LookupFrom(_, _, _, _)
LookupFrom(progs, i, lookup, drv) ==
  IF i > Len(progs) THEN [programs |-> progs, pid |-> 0]
  ELSE LET e  == progs[i]
           nm == IF e.name = <<>> THEN RStrip(GetServiceName(e.sid, drv)) ELSE e.name
           p2 == [progs EXCEPT ![i].name = nm]
       IN  IF nm = lookup THEN [programs |-> p2, pid |-> e.sid]
           ELSE LookupFrom(p2, i + 1, lookup, drv)

GetProgramId(s, lookup) ==
  LET r == LookupFrom(s.programs, 1, lookup, s.drv)
  IN  [s |-> [s EXCEPT !.programs = r.programs], pid |-> r.pid]

\* a handler identity nothing refers to
FreshId(s, pid) ==
  LET used == {s.handlers[x] : x \in Sids} \cup {held[c] : c \in Clients} \cup {torn}
      free == {i \in HandlerIds \ used : SidOf(i) = pid}
  IN  CHOOSE i \in free : \A j \in free : i <= j

\* _subscribe_for_service_in_current_channel from "the program exists in the
\* channel" on: [s, ret]; ret NoHandler is None
Attach(s, pid, drvOk) ==
  IF s.handlers[pid] # NoHandler
  THEN LET h == s.handlers[pid]
       IN  [s |-> [s EXCEPT !.subscribers[h] = @ + 1], ret |-> h]
  ELSE LET h  == FreshId(s, pid)
           s1 == [s EXCEPT !.handlers[pid] = h, !.subscribers[h] = 0,
                           !.released = @ \ {h}]
           s2 == DevSubscribe(s1, pid, drvOk)
       IN  IF ~drvOk THEN [s |-> StartDelayedReset(s2), ret |-> NoHandler]
           ELSE [s |-> [s2 EXCEPT !.subscribers[h] = @ + 1], ret |-> h]

\* _unsubscribe of a registered handler
Unsubscribe(s, pid) ==
  LET h  == s.handlers[pid]
      s1 == [s EXCEPT !.subscribers[h] = @ - 1]
  IN  IF s1.subscribers[h] # 0 THEN s1
      ELSE LET s2 == DevUnsubscribe(s1, pid)
               s3 == [s2 EXCEPT !.released = @ \cup {h}, !.handlers[pid] = NoHandler]
           IN  StartDelayedReset(s3)

\* the loop of stop() over the registered handlers
RECURSIVE UnsubscribeAll(_, _)
UnsubscribeAll(s, pids) ==
  IF pids = {} THEN s
  ELSE LET p == CHOOSE x \in pids : \A y \in pids : x <= y
       IN  UnsubscribeAll(Unsubscribe(s, p), pids \ {p})

\* stop(), once it has the lock
StopBody(s) ==
  LET s1 == UnsubscribeAll(s, {x \in Sids : s.handlers[x] # NoHandler})
      s2 == LockRelease(s1)
  IN  IF s2.ref # NoTask THEN ResetChannel(CancelTask(s2, s2.ref)) ELSE s2

\* _reset_later_if_no_handler after the timeout, once it has the lock
TimeoutBody(s, t) ==
  LET s1 == IF s.chan # NoCh /\ s.chan = s.task[t].target THEN ResetChannel(s) ELSE s
      s2 == LockRelease(s1)
  IN  [s2 EXCEPT !.ref = NoTask, !.task[t] = FreeTask, !.doneCb = TRUE]

\* ---------------------------------------------------------------- Init
\* waited: the request slept before it subscribed (kept until the client's
\* next request)
NoArg == [ch |-> NoCh, name |-> <<>>, polls |-> 0, waited |-> FALSE]
NoResp == [c \in Clients |-> 0]
\* the note of the request client c has in progress
Waited(c) == pc[c] # "idle" /\ arg[c].waited

InitRc ==
  /\ owner = "none" /\ drvChannel = NoCh /\ drvSubs = {}
  /\ chanName = NoCh /\ programs = <<>>
  /\ handlers = [x \in Sids |-> NoHandler]
  /\ subscribers = [i \in HandlerIds |-> 0]
  /\ released = {}
  /\ cancelSet = TRUE
  /\ resetRef = NoTask /\ doneCb = FALSE
  /\ task = [t \in TaskIds |-> FreeTask]
  /\ lockHolder = "none" /\ lockQueue = <<>>
  /\ pc = [p \in Procs |-> "idle"]
  /\ arg = [p \in Procs |-> NoArg]
  /\ held = [c \in Clients |-> NoHandler]
  /\ torn = NoHandler
  /\ resp = NoResp
  /\ shutdownInProgress = FALSE
  /\ drvLog = <<>>

\* the end of every controller step: the record becomes the state. The
\* bookkeeping of handler objects nothing refers to any more is dropped.
Apply(s, held2, torn2) ==
  /\ s.fit
  /\ \A i \in HandlerIds : s.subscribers[i] \in (0 - MaxDeficit)..MaxSubscribers
  /\ owner' = s.owner /\ drvChannel' = s.drv /\ drvSubs' = s.drvSubs
  /\ chanName' = s.chan /\ programs' = s.programs /\ handlers' = s.handlers
  /\ cancelSet' = s.cancel /\ resetRef' = s.ref /\ doneCb' = s.doneCb
  /\ task' = s.task /\ lockHolder' = s.lockH /\ lockQueue' = s.lockQ
  /\ held' = held2
  /\ shutdownInProgress' = s.shutdown
  /\ LET t2   == IF \E t \in TaskIds : s.task[t].pc # "free" THEN torn2 ELSE NoHandler
         refd == {s.handlers[x] : x \in Sids} \cup {held2[c] : c \in Clients} \cup {t2}
     IN  /\ torn' = t2
         /\ subscribers' = [i \in HandlerIds |-> IF i \in refd THEN s.subscribers[i] ELSE 0]
         /\ released' = s.released \cap refd
  /\ drvLog' = s.log

\* a step that answers no request
Commit(s, held2, torn2) == Apply(s, held2, torn2) /\ resp' = NoResp

\* ------------------------------------------------- subscribe_program
\* the call returns ret to client c and leaves the lock; get_audio answers
\* 503 when it gets no handler and begins the stream (200) otherwise
Return(c, s, ret, ch, name) ==
  /\ Apply(LockRelease(s), [held EXCEPT ![c] = ret], torn)
  /\ resp' = [NoResp EXCEPT ![c] = IF ret # NoHandler THEN 200 ELSE 503]
  /\ pc' = [pc EXCEPT ![c] = IF ret # NoHandler THEN "streaming" ELSE "idle"]
  /\ arg' = [arg EXCEPT ![c] = IF ret # NoHandler
                                THEN [ch |-> ch, name |-> name, polls |-> 0,
                                      waited |-> Waited(c)]
                                ELSE [NoArg EXCEPT !.waited = Waited(c),
                                                   !.ch = IF Waited(c) THEN ch ELSE NoCh]]

\* subscribe_program from the moment it has the lock up to its first suspension
SubscribeBody(c, ch, name, tuneOk, drvOk, s0) ==
  LET t == TuneChannel(s0, ch, tuneOk)
  IN  IF ~t.ok THEN Return(c, t.s, NoHandler, ch, name)
      ELSE LET g == GetProgramId(t.s, name)
           IN  IF g.pid # 0
               THEN LET a == Attach(g.s, g.pid, drvOk)
                    IN  Return(c, a.s, a.ret, ch, name)
               ELSE /\ Commit(g.s, held, torn)
                    /\ pc' = [pc EXCEPT ![c] = "sub_poll"]
                    /\ arg' = [arg EXCEPT ![c] = [ch |-> ch, name |-> name,
                                                  polls |-> MaxPolls, waited |-> Waited(c)]]

\* the lock is free: the call runs at once
Subscribe(c, ch, name, tuneOk, drvOk) ==
  /\ pc[c] = "idle" /\ lockHolder = "none"
  /\ SubscribeBody(c, ch, name, tuneOk, drvOk, [Cur EXCEPT !.lockH = c])
  /\ UNCHANGED <<scanVars, scVars>>

\* the lock is taken: the call queues
SubscribeWait(c, ch, name) ==
  /\ pc[c] = "idle" /\ lockHolder # "none"
  /\ Commit([Cur EXCEPT !.lockQ = Append(@, c)], held, torn)
  /\ pc' = [pc EXCEPT ![c] = "sub_lock"]
  /\ arg' = [arg EXCEPT ![c] = [ch |-> ch, name |-> name, polls |-> 0, waited |-> FALSE]]
  /\ UNCHANGED <<scanVars, scVars>>

SubscribeGo(c, tuneOk, drvOk) ==
  /\ pc[c] = "sub_lock" /\ lockHolder = c
  /\ SubscribeBody(c, arg[c].ch, arg[c].name, tuneOk, drvOk, Cur)
  /\ UNCHANGED <<scanVars, scVars>>

\* the client goes away while its call waits for the lock
SubscribeAbandon(c) ==
  /\ pc[c] = "sub_lock"
  /\ Commit(LockAbandon(Cur, c), held, torn)
  /\ pc' = [pc EXCEPT ![c] = "idle"]
  /\ arg' = [arg EXCEPT ![c] = NoArg]
  /\ UNCHANGED <<scanVars, scVars>>

\* one round of _wait_for_channel after its sleep
SubscribePoll(c, drvOk) ==
  /\ pc[c] = "sub_poll"
  /\ LET g == GetProgramId(Cur, arg[c].name)
     IN  IF g.pid # 0
         THEN LET a == Attach(g.s, g.pid, drvOk)
              IN  Return(c, a.s, a.ret, arg[c].ch, arg[c].name)
         ELSE IF arg[c].polls > 1
         THEN /\ Commit(g.s, held, torn)
              /\ pc' = pc
              /\ arg' = [arg EXCEPT ![c].polls = @ - 1]
         ELSE Return(c, StartDelayedReset(g.s), NoHandler, arg[c].ch, arg[c].name)
  /\ UNCHANGED <<scanVars, scVars>>

\* CancelledError / ConnectionResetError while waiting for the service
SubscribeCancel(c) ==
  /\ pc[c] = "sub_poll"
  /\ Commit(LockRelease(StartDelayedReset(Cur)), [held EXCEPT ![c] = NoHandler], torn)
  /\ pc' = [pc EXCEPT ![c] = "idle"]
  /\ arg' = [arg EXCEPT ![c] = NoArg]
  /\ UNCHANGED <<scanVars, scVars>>

\* ------------------------------------------------ unsubscribe_program
\* a missing handler is a KeyError in _unsubscribe: the call ends there
UnsubscribeBody(c, s0) ==
  LET g    == GetProgramId(s0, arg[c].name)
      had  == IF g.pid = 0 THEN NoHandler ELSE g.s.handlers[g.pid]
      s1   == IF had = NoHandler THEN g.s ELSE Unsubscribe(g.s, g.pid)
      gone == had # NoHandler /\ s1.handlers[g.pid] = NoHandler
  IN  /\ Commit(LockRelease(s1), [held EXCEPT ![c] = NoHandler],
                IF gone THEN had ELSE torn)
      /\ pc' = [pc EXCEPT ![c] = "idle"]
      /\ arg' = [arg EXCEPT ![c] = NoArg]

Unsubscribe_program(c) ==
  /\ pc[c] = "streaming" /\ lockHolder = "none"
  /\ UnsubscribeBody(c, [Cur EXCEPT !.lockH = c])
  /\ UNCHANGED <<scanVars, scVars>>

UnsubscribeWait(c) ==
  /\ pc[c] = "streaming" /\ lockHolder # "none"
  /\ Commit([Cur EXCEPT !.lockQ = Append(@, c)], held, torn)
  /\ pc' = [pc EXCEPT ![c] = "unsub_lock"]
  /\ arg' = arg
  /\ UNCHANGED <<scanVars, scVars>>

UnsubscribeGo(c) ==
  /\ pc[c] = "unsub_lock" /\ lockHolder = c
  /\ UnsubscribeBody(c, Cur)
  /\ UNCHANGED <<scanVars, scVars>>

\* the stream ends with UnsubscribedError: the request returns without
\* unsubscribing
StreamUnsubscribed(c) ==
  /\ pc[c] = "streaming" /\ held[c] \in released
  /\ Commit(Cur, [held EXCEPT ![c] = NoHandler], torn)
  /\ pc' = [pc EXCEPT ![c] = "idle"]
  /\ arg' = [arg EXCEPT ![c] = NoArg]
  /\ UNCHANGED <<scanVars, scVars>>

\* ---------------------------------------------------------------- stop
Stop ==
  /\ pc[Admin] = "idle" /\ lockHolder = "none"
  /\ Commit(StopBody([Cur EXCEPT !.lockH = Admin]), held, torn)
  /\ UNCHANGED <<pc, arg, scanVars, scVars>>

StopWait ==
  /\ pc[Admin] = "idle" /\ lockHolder # "none"
  /\ Commit([Cur EXCEPT !.lockQ = Append(@, Admin)], held, torn)
  /\ pc' = [pc EXCEPT ![Admin] = "stop_lock"]
  /\ UNCHANGED <<arg, scanVars, scVars>>

StopGo ==
  /\ pc[Admin] = "stop_lock" /\ lockHolder = Admin
  /\ Commit(StopBody(Cur), held, torn)
  /\ pc' = [pc EXCEPT ![Admin] = "idle"]
  /\ UNCHANGED <<arg, scanVars, scVars>>

\* can_subscribe(new_channel)
CanSubscribe(ch) == chanName = NoCh \/ chanName = ch \/ ~cancelSet

\* -------------------------------------------------- DabServer.get_audio
\* a request for a channel the controller can take goes straight to
\* subscribe_program
GetAudio(c, ch, name, tuneOk, drvOk) ==
  /\ CanSubscribe(ch)
  /\ (Subscribe(c, ch, name, tuneOk, drvOk) \/ SubscribeWait(c, ch, name))

\* a get_audio that answers 503 at once where the code sleeps
GetAudioTurnAway(c, ch, name) ==
  /\ pc[c] = "idle" /\ ~CanSubscribe(ch)
  /\ Apply(Cur, held, torn)
  /\ resp' = [NoResp EXCEPT ![c] = 503]
  /\ UNCHANGED <<pc, arg, scanVars, scVars>>

\* a request for a channel the controller cannot take sleeps half a second
GetAudioBusy(c, ch, name) ==
  /\ pc[c] = "idle" /\ ~CanSubscribe(ch)
  /\ Commit(Cur, held, torn)
  /\ pc' = [pc EXCEPT ![c] = "busy_wait"]
  /\ arg' = [arg EXCEPT ![c] = [ch |-> ch, name |-> name, polls |-> 0, waited |-> TRUE]]
  /\ UNCHANGED <<scanVars, scVars>>

\* the sleep is over: subscribe_program is called, whatever the controller
\* can take by now
GetAudioRetry(c, tuneOk, drvOk) ==
  /\ pc[c] = "busy_wait"
  /\ IF lockHolder = "none"
     THEN SubscribeBody(c, arg[c].ch, arg[c].name, tuneOk, drvOk, [Cur EXCEPT !.lockH = c])
     ELSE /\ Commit([Cur EXCEPT !.lockQ = Append(@, c)], held, torn)
          /\ pc' = [pc EXCEPT ![c] = "sub_lock"]
          /\ arg' = arg
  /\ UNCHANGED <<scanVars, scVars>>

\* the client goes away during the sleep
GetAudioAbandon(c) ==
  /\ pc[c] = "busy_wait"
  /\ Commit(Cur, held, torn)
  /\ pc' = [pc EXCEPT ![c] = "idle"]
  /\ arg' = [arg EXCEPT ![c] = NoArg]
  /\ UNCHANGED <<scanVars, scVars>>

\* the client cancels the stream, or the connection is reset: get_audio calls
\* unsubscribe_program(program) without awaiting it, so the coroutine is
\* created and never run; the response ends as it began
StreamCancelled(c) ==
  /\ pc[c] = "streaming"
  /\ Commit(Cur, [held EXCEPT ![c] = NoHandler], torn)
  /\ pc' = [pc EXCEPT ![c] = "idle"]
  /\ arg' = [arg EXCEPT ![c] = NoArg]
  /\ UNCHANGED <<scanVars, scVars>>

\* str.startswith(prefix)
StartsWith(str, prefix) ==
  Len(str) >= Len(prefix) /\ SubSeq(str, 1, Len(prefix)) = prefix

CoverPrefix == <<"c", "o", "v", "e", "r", ".">>

\* get_audio turns the request away with status code, before anything else
TurnAway(c, code) ==
  /\ pc[c] = "idle"
  /\ Apply(Cur, held, torn)
  /\ resp' = [NoResp EXCEPT ![c] = code]
  /\ UNCHANGED <<pc, arg, scanVars, scVars>>

\* a get_audio that looks at the service name before it looks at the shutdown
FrontDoorNameFirst(c, ch, name, tuneOk, drvOk) ==
  IF StartsWith(name, CoverPrefix) THEN TurnAway(c, 404)
  ELSE IF shutdownInProgress THEN TurnAway(c, 503)
  ELSE GetAudio(c, ch, name, tuneOk, drvOk) \/ GetAudioBusy(c, ch, name)

\* get_audio from its first line: the shutdown check, the check of the
\* service name, then the request as above
FrontDoor(c, ch, name, tuneOk, drvOk) ==
  IF shutdownInProgress THEN TurnAway(c, 503)
  ELSE IF StartsWith(name, CoverPrefix) THEN TurnAway(c, 404)
  ELSE GetAudio(c, ch, name, tuneOk, drvOk) \/ GetAudioBusy(c, ch, name)

\* DabServer.stop with no scan running: the flag is set; stop() of the radio
\* controller is a coroutine called without await, so it does not run;
\* DabScanner.stop finds no task and returns; the device is told to leave its
\* channel and to close
ServerStop ==
  /\ ~shutdownInProgress /\ ~scanTask
  /\ LET s1 == [Cur EXCEPT !.shutdown = TRUE]
         s2 == Logged(s1, "reset_channel", "server", NoCh, 0)
     IN  Commit(Logged(s2, "close_device", "server", NoCh, 0), held, torn)
  /\ UNCHANGED <<pc, arg, scanVars, scVars>>

\* ------------------------------------- _reset_later_if_no_handler tasks
\* first step of the task, up to wait_for
TaskStart(t) ==
  /\ task[t].pc = "created"
  /\ IF \E x \in Sids : handlers[x] # NoHandler
     THEN Commit([Cur EXCEPT !.ref = NoTask, !.task[t] = FreeTask, !.doneCb = TRUE],
                 held, torn)
     ELSE Commit([Cur EXCEPT !.task[t] =
                         [@ EXCEPT !.pc = "waiting", !.target = chanName,
                                   !.heard = \E c \in Clients :
                                               pc[c] = "sub_poll" /\ arg[c].ch = chanName],
                             !.cancel = FALSE], held, torn)
  /\ UNCHANGED <<pc, arg, scanVars, scVars>>

\* CHANNEL_RESET_DELAY has passed: the timeout ends the wait. A timer that
\* comes due after Event.set() runs behind the wake-up the set() scheduled,
\* so it only ever ends a wait that nothing has ended yet.
TimerFire(t) ==
  /\ task[t].pc = "waiting"
  /\ Commit([Cur EXCEPT !.task[t].pc = "timedout"], held, torn)
  /\ UNCHANGED <<pc, arg, scanVars, scVars>>

\* the wait ended with the event set: "as the channel will be reused, dont reset"
TaskResume(t) ==
  /\ task[t].pc = "woken"
  /\ Commit([Cur EXCEPT !.ref = NoTask, !.task[t] = FreeTask, !.doneCb = TRUE],
            held, torn)
  /\ UNCHANGED <<pc, arg, scanVars, scVars>>

\* except TimeoutError: take the lock, or queue for it
TaskTimeout(t) ==
  /\ task[t].pc = "timedout"
  /\ IF lockHolder = "none"
     THEN Commit(TimeoutBody([Cur EXCEPT !.lockH = TL(t)], t), held, torn)
     ELSE Commit([Cur EXCEPT !.lockQ = Append(@, TL(t)), !.task[t].pc = "lockwait"],
                 held, torn)
  /\ UNCHANGED <<pc, arg, scanVars, scVars>>

TaskGo(t) ==
  /\ task[t].pc = "lockwait" /\ lockHolder = TL(t)
  /\ Commit(TimeoutBody(Cur, t), held, torn)
  /\ UNCHANGED <<pc, arg, scanVars, scVars>>

\* the done-callback of a finished task
RemoveRef ==
  /\ doneCb
  /\ Commit([Cur EXCEPT !.ref = NoTask, !.doneCb = FALSE], held, torn)
  /\ UNCHANGED <<pc, arg, scanVars, scVars>>

\* on_service_detected, forwarded to the controller while it owns the device
OnServiceDetected(sid) ==
  /\ owner = "rc" /\ drvChannel = ChannelOf(sid)
  /\ \A i \in 1..Len(programs) : programs[i].sid # sid
  /\ Commit([Cur EXCEPT !.programs = Append(@, [sid |-> sid, name |-> <<>>])], held, torn)
  /\ UNCHANGED <<pc, arg, scanVars, scVars>>

\* ------------------------------------------------------------ DabScanner
\* the status _run_scan leaves in ui_status['scanner_status'] when it ends, up
\* to the count of services the text names; the texts start_scan sets are
\* left out
SetStatus(s, text, count) == Logged(s, "ui_status", "scanner", text, count)

\* a start_scan that does not look at the device's answer
StartScanEager ==
  /\ IF scanTask
     THEN Commit(Cur, held, torn) /\ UNCHANGED <<scanTask, scanPc>>
     ELSE /\ Commit(AquireNow(Cur, "scanner"), held, torn)
          /\ scanTask' = TRUE /\ scanPc' = "created"
  /\ UNCHANGED <<pc, arg, scanIdx, isSignal, scanResults, serviceCount, pending, scVars>>

StartScan ==
  /\ IF scanTask
     THEN Commit(Cur, held, torn) /\ UNCHANGED <<scanTask, scanPc>>
     ELSE /\ Commit(AquireNow(Cur, "scanner"), held, torn)
          /\ IF AquireOk(Cur)
             THEN scanTask' = TRUE /\ scanPc' = "created"
             ELSE UNCHANGED <<scanTask, scanPc>>
  /\ UNCHANGED <<pc, arg, scanIdx, isSignal, scanResults, serviceCount, pending, scVars>>

\* ui_status['download_ready'] = ready
SetDownloadReady(s, ready) ==
  Logged(s, "download_ready", "scanner", NoCh, IF ready THEN 1 ELSE 0)

\* the end of one channel: untune, then the next channel or the end of the scan
ScanAdvance(res, count) ==
  LET s1 == SetChannel(Cur, "scanner", NoCh, TRUE)
  IN  IF scanIdx < Len(AllChannelNames)
      THEN /\ Commit(SetChannel(s1, "scanner", AllChannelNames[scanIdx + 1], TRUE), held, torn)
           /\ scanIdx' = scanIdx + 1
           /\ scanResults' = (AllChannelNames[scanIdx + 1] :> <<>>) @@ res
           /\ scanPc' = "wait_signal"
           /\ scanTask' = scanTask
           /\ serviceCount' = count
      ELSE /\ Commit(SetStatus(SetDownloadReady(Release(s1, "scanner"), count > 0),
                               "Scan finished", count), held, torn)
           /\ serviceCount' = 0
           /\ scanIdx' = 0
           /\ scanResults' = res
           /\ scanPc' = "none"
           /\ scanTask' = FALSE

\* first step of _run_scan
ScanBegin ==
  /\ scanPc = "created"
  /\ Commit(SetChannel(SetDownloadReady(Cur, FALSE), "scanner", AllChannelNames[1], TRUE),
            held, torn)
  /\ scanIdx' = 1
  /\ serviceCount' = 0
  /\ scanResults' = (AllChannelNames[1] :> <<>>)
  /\ scanPc' = "wait_signal"
  /\ UNCHANGED <<pc, arg, scanTask, isSignal, pending, scVars>>

OnSignalPresence(sig) ==
  /\ owner = "scanner" /\ drvChannel # NoCh
  /\ isSignal' = sig
  /\ scanPc' = IF scanPc = "wait_signal" THEN "signalled" ELSE scanPc
  /\ Commit(Cur, held, torn)
  /\ UNCHANGED <<pc, arg, scanTask, scanIdx, scanResults, serviceCount, pending, scVars>>

ScanSignalled ==
  /\ scanPc = "signalled"
  /\ IF isSignal
     THEN /\ scanPc' = "discover"
          /\ Commit(Cur, held, torn)
          /\ UNCHANGED <<scanTask, scanIdx, scanResults, serviceCount>>
     ELSE ScanAdvance(scanResults, serviceCount)
  /\ UNCHANGED <<pc, arg, isSignal, pending, scVars>>

\* after the discovery sleep: collect the names
ScanDiscovered ==
  /\ scanPc = "discover"
  /\ LET ch == AllChannelNames[scanIdx]
         named == [x \in DOMAIN scanResults[ch] |-> RStrip(GetServiceName(x, drvChannel))]
     IN  ScanAdvance([scanResults EXCEPT ![ch] = named],
                     serviceCount + Cardinality(DOMAIN scanResults[ch]))
  /\ UNCHANGED <<pc, arg, isSignal, pending, scVars>>

\* scanner's on_service_detected: the entry goes under the last channel
ScanServiceDetected(sid) ==
  /\ owner = "scanner" /\ drvChannel = ChannelOf(sid)
  /\ DOMAIN scanResults # {}
  /\ LET ch == AllChannelNames[Cardinality(DOMAIN scanResults)]
     IN  /\ sid \notin DOMAIN scanResults[ch]
         /\ scanResults' = [scanResults EXCEPT ![ch] = (sid :> <<>>) @@ @]
  /\ Commit(Cur, held, torn)
  /\ UNCHANGED <<pc, arg, scanTask, scanPc, scanIdx, isSignal, serviceCount, pending, scVars>>

\* stop_scan: cancel the task
StopScan ==
  /\ scanTask /\ scanPc \in {"created", "wait_signal", "signalled", "discover"}
  /\ scanPc' = IF scanPc = "created" THEN "cancel_created" ELSE "cancelling"
  /\ Commit(Cur, held, torn)
  /\ UNCHANGED <<pc, arg, scanTask, scanIdx, isSignal, scanResults, serviceCount, pending, scVars>>

\* the cancelled task's next step. A task cancelled before its first step
\* never enters the body, so neither its except nor its finally runs.
ScanCancelled ==
  /\ scanPc \in {"cancel_created", "cancelling"}
  /\ IF scanPc = "cancel_created"
     THEN /\ scanPc' = "dead"
          /\ Commit(Cur, held, torn)
          /\ UNCHANGED <<scanTask, scanIdx, serviceCount>>
     ELSE /\ Commit(SetDownloadReady(Release(SetStatus(SetChannel(Cur, "scanner", NoCh, TRUE),
                                                            "Scan stopped", serviceCount),
                                                  "scanner"), serviceCount > 0), held, torn)
          /\ scanTask' = FALSE
          /\ serviceCount' = 0
          /\ scanPc' = "none"
          /\ scanIdx' = 0
  /\ UNCHANGED <<pc, arg, isSignal, scanResults, pending, scVars>>

\* CallbackForwarder.__getattr__: the driver thread emits a callback. The
\* method is looked up on the holder of the lease at that moment and handed to
\* the event loop as a coroutine, which runs when the loop gets to it. m is
\* the callback: who it is bound to, service_detected or signal_presence, its
\* argument, and the channel the driver was tuned to when it emitted it. (The
\* signal_presence of the radio controller does nothing and is left out.)
EmitCallback(m) ==
  /\ Cardinality(pending) < MaxPending
  /\ owner # "none" /\ m.to = owner
  /\ drvChannel # NoCh /\ m.ch = drvChannel
  /\ \/ m.kind = "service" /\ ChannelOf(m.sid) = drvChannel /\ ~m.sig
     \/ m.kind = "signal" /\ owner = "scanner" /\ m.sid = 0
  /\ pending' = pending \cup {m}
  /\ Commit(Cur, held, torn)
  /\ UNCHANGED <<pc, arg, scanTask, scanPc, scanIdx, isSignal, scanResults, serviceCount, scVars>>

\* the event loop runs the coroutine of a callback: on_service_detected of
\* the radio controller, or on_service_detected / on_signal_presence of the
\* scanner (an empty scan_results makes its [-1] raise, and nothing is stored)
DeliverCallback(m) ==
  /\ m \in pending
  /\ pending' = pending \ {m}
  /\ IF m.to = "rc"
     THEN /\ Commit(IF \E i \in 1..Len(programs) : programs[i].sid = m.sid THEN Cur
                    ELSE [Cur EXCEPT !.programs = Append(@, [sid |-> m.sid, name |-> <<>>])],
                    held, torn)
          /\ UNCHANGED <<scanPc, isSignal, scanResults>>
     ELSE /\ Commit(Cur, held, torn)
          /\ IF m.kind = "signal"
             THEN /\ isSignal' = m.sig
                  /\ scanPc' = IF scanPc = "wait_signal" THEN "signalled" ELSE scanPc
                  /\ scanResults' = scanResults
             ELSE /\ UNCHANGED <<isSignal, scanPc>>
                  /\ scanResults' =
                       IF DOMAIN scanResults = {} THEN scanResults
                       ELSE LET ch == AllChannelNames[Cardinality(DOMAIN scanResults)]
                            IN  IF m.sid \in DOMAIN scanResults[ch] THEN scanResults
                                ELSE [scanResults EXCEPT ![ch] = (m.sid :> <<>>) @@ @]
  /\ UNCHANGED <<pc, arg, scanTask, scanIdx, serviceCount, scVars>>

\* status(): is_scan_active, and the progress in percent
IsScanActive == scanTask
Max(a, b) == IF a >= b THEN a ELSE b
ScannedChannels == Max(0, Cardinality(DOMAIN scanResults) - 1)
Progress == IF scanTask THEN (100 * ScannedChannels) \div Len(AllChannelNames) ELSE 0

InitScan ==
  /\ scanTask = FALSE /\ scanPc = "none" /\ scanIdx = 0
  /\ isSignal = FALSE /\ scanResults = <<>> /\ serviceCount = 0
  /\ pending = {}

\* ----------------------------------------------------- ServiceController
\* One controller and the requests reading from it. A frame is the one-byte
\* blob <<k>> for the k-th frame delivered; b'' is <<>>. data_lock is only
\* ever held across code that does not suspend, so it is always free when it
\* is taken and the locked sections are atomic steps.
BUFFER_SIZE == 10
Slots == 0..(BUFFER_SIZE - 1)
Readers == {"r1", "r2"}
Rates == {32000, 48000}
NoRet == [kind |-> "none", start |-> 0, new |-> 0, bytes |-> <<>>, version |-> 0,
   rate |-> 0]

\* a response body: the WAV headers in it (the model stops counting at 2),
\* the sample rate of the first one, whether audio has been written, and
\* whether audio was written before there was a header
NoBody == [headers |-> 0, rate |-> 0, audio |-> FALSE, bare |-> FALSE]

InitSc ==
  /\ nextFrame = 0
  /\ bufData = [i \in Slots |-> <<>>]
  /\ produced = 0
  /\ deleteInProgress = FALSE
  /\ evSet = [e \in {"audio", "picture", "label"} |-> FALSE]
  /\ curLabel = 0 /\ curPicture = 0 /\ sampleRate = 0
  /\ rpc = [r \in Readers |-> "idle"]
  /\ rstart = [r \in Readers |-> 0]
  /\ rsnap = [r \in Readers |-> 0]
  /\ rret = [r \in Readers |-> NoRet]
  /\ wavHeader = [r \in Readers |-> NoBody]

\* b''.join(data[a:b])
RECURSIVE JoinSlice(_, _, _)
JoinSlice(data, a, b) ==
  IF a >= b THEN <<>> ELSE data[a] \o JoinSlice(data, a + 1, b)

\* the locked section of new_audio: (next_frame, audio_out)
ReadOut(data, start, next) ==
  IF start < next THEN JoinSlice(data, start, next)
  ELSE JoinSlice(data, start, BUFFER_SIZE) \o JoinSlice(data, 0, next)

AudioRet(start) ==
  [kind |-> "audio", start |-> start, new |-> nextFrame,
   bytes |-> ReadOut(bufData, start, nextFrame), version |-> 0,
   rate |-> sampleRate]
Unsubscribed(start) ==
  [kind |-> "unsubscribed", start |-> start, new |-> 0, bytes |-> <<>>, version |-> 0,
   rate |-> 0]
MetaRet(kind, v) ==
  [kind |-> kind, start |-> 0, new |-> 0, bytes |-> <<>>, version |-> v, rate |-> 0]

\* Event.set() followed by Event.clear(): the waiters' futures get their result
Wake(pcs, waiting, woken) ==
  [r \in Readers |-> IF pcs[r] = waiting THEN woken ELSE pcs[r]]

\* new_audio(start_frame) up to its suspension, or to its return; the request
\* passes the cursor it got from its last call (0 at first)
NewAudio(r) ==
  /\ rpc[r] = "idle"
  /\ IF rstart[r] = nextFrame /\ ~evSet["audio"]
     THEN rpc' = [rpc EXCEPT ![r] = "audio_wait"] /\ rret' = rret
     ELSE /\ rpc' = [rpc EXCEPT ![r] = "returned"]
          /\ rret' = [rret EXCEPT ![r] =
                        IF rstart[r] = nextFrame /\ deleteInProgress
                        THEN Unsubscribed(rstart[r]) ELSE AudioRet(rstart[r])]
  /\ UNCHANGED <<nextFrame, bufData, produced, deleteInProgress, evSet, curLabel,
                 curPicture, sampleRate, rstart, rsnap, rcVars, scanVars, wavHeader, castVars>>

\* new_audio after the wait
NewAudioResume(r) ==
  /\ rpc[r] = "audio_woken"
  /\ rpc' = [rpc EXCEPT ![r] = "returned"]
  /\ rret' = [rret EXCEPT ![r] = IF deleteInProgress THEN Unsubscribed(rstart[r])
                                  ELSE AudioRet(rstart[r])]
  /\ UNCHANGED <<nextFrame, bufData, produced, deleteInProgress, evSet, curLabel,
                 curPicture, sampleRate, rstart, rsnap, rcVars, scanVars, wavHeader, castVars>>

\* new_label / new_picture up to the suspension, or to the return
NewMeta(r, kind) ==
  /\ rpc[r] = "idle"
  /\ IF ~evSet[kind]
     THEN rpc' = [rpc EXCEPT ![r] = kind \o "_wait"] /\ rret' = rret
     ELSE /\ rpc' = [rpc EXCEPT ![r] = "returned"]
          /\ rret' = [rret EXCEPT ![r] =
                        IF deleteInProgress THEN Unsubscribed(0)
                        ELSE MetaRet(kind, IF kind = "label" THEN curLabel ELSE curPicture)]
  /\ rsnap' = [rsnap EXCEPT ![r] = IF kind = "label" THEN curLabel ELSE curPicture]
  /\ UNCHANGED <<nextFrame, bufData, produced, deleteInProgress, evSet, curLabel,
                 curPicture, sampleRate, rstart, rcVars, scanVars, wavHeader, castVars>>

NewMetaResume(r, kind) ==
  /\ rpc[r] = kind \o "_woken"
  /\ rpc' = [rpc EXCEPT ![r] = "returned"]
  /\ rret' = [rret EXCEPT ![r] =
                IF deleteInProgress THEN Unsubscribed(0)
                ELSE MetaRet(kind, IF kind = "label" THEN curLabel ELSE curPicture)]
  /\ UNCHANGED <<nextFrame, bufData, produced, deleteInProgress, evSet, curLabel,
                 curPicture, sampleRate, rstart, rsnap, rcVars, scanVars, wavHeader, castVars>>

\* the request has used the result (written it to the response); an audio
\* request goes on from the cursor it was given
Consume(r) ==
  /\ rpc[r] = "returned"
  /\ rpc' = [rpc EXCEPT ![r] = "idle"]
  /\ rstart' = [rstart EXCEPT ![r] = IF rret[r].kind = "audio" THEN rret[r].new ELSE @]
  /\ rret' = [rret EXCEPT ![r] = NoRet]
  /\ UNCHANGED <<nextFrame, bufData, produced, deleteInProgress, evSet, curLabel,
                 curPicture, sampleRate, rsnap, rcVars, scanVars, wavHeader, castVars>>

\* response.write(data) of an audio request, with or without a WAV header
\* in front
Written(body, withHeader, rate, data) ==
  [headers |-> IF withHeader THEN (IF body.headers < 2 THEN body.headers + 1 ELSE 2)
               ELSE body.headers,
   rate    |-> IF withHeader /\ body.headers = 0 THEN rate ELSE body.rate,
   audio   |-> body.audio \/ data # <<>>,
   bare    |-> body.bare \/ (data # <<>> /\ body.headers = 0 /\ ~withHeader)]

\* a stream loop that puts the header in front of every write
StreamWriteAgain(r) ==
  /\ rpc[r] = "returned" /\ rret[r].kind = "audio"
  /\ wavHeader' = [wavHeader EXCEPT ![r] = Written(@, TRUE, rret[r].rate, rret[r].bytes)]
  /\ rpc' = [rpc EXCEPT ![r] = "idle"]
  /\ rstart' = [rstart EXCEPT ![r] = rret[r].new]
  /\ rret' = [rret EXCEPT ![r] = NoRet]
  /\ UNCHANGED <<nextFrame, bufData, produced, deleteInProgress, evSet, curLabel,
                 curPicture, sampleRate, rsnap, rcVars, scanVars, castVars>>

\* the stream loop of get_audio for PCM, from the return of new_audio to the
\* next call: the first write is header + audio, with the header made from
\* data.sample_rate as it was when new_audio returned; later writes are audio
StreamWrite(r) ==
  /\ rpc[r] = "returned" /\ rret[r].kind = "audio"
  /\ wavHeader' = [wavHeader EXCEPT ![r] =
                     Written(@, ~(@.audio \/ @.headers > 0), rret[r].rate, rret[r].bytes)]
  /\ rpc' = [rpc EXCEPT ![r] = "idle"]
  /\ rstart' = [rstart EXCEPT ![r] = rret[r].new]
  /\ rret' = [rret EXCEPT ![r] = NoRet]
  /\ UNCHANGED <<nextFrame, bufData, produced, deleteInProgress, evSet, curLabel,
                 curPicture, sampleRate, rsnap, rcVars, scanVars, castVars>>

\* new_audio raised UnsubscribedError: get_audio returns the response
StreamUnsubscribedError(r) ==
  /\ rpc[r] = "returned" /\ rret[r].kind = "unsubscribed"
  /\ rpc' = [rpc EXCEPT ![r] = "closed"]
  /\ UNCHANGED <<nextFrame, bufData, produced, deleteInProgress, evSet, curLabel,
                 curPicture, sampleRate, rstart, rsnap, rret, wavHeader, rcVars, scanVars,
                 castVars>>

\* release_waiters that marks the controller and wakes nobody
ReleaseWaitersSilent ==
  /\ ~deleteInProgress
  /\ deleteInProgress' = TRUE
  /\ UNCHANGED <<nextFrame, bufData, produced, evSet, curLabel, curPicture, sampleRate,
                 rpc, rstart, rsnap, rret, rcVars, scanVars, wavHeader, castVars>>

ReleaseWaiters ==
  /\ ~deleteInProgress
  /\ deleteInProgress' = TRUE
  /\ evSet' = [e \in DOMAIN evSet |-> TRUE]
  /\ rpc' = Wake(Wake(Wake(rpc, "audio_wait", "audio_woken"),
                      "picture_wait", "picture_woken"), "label_wait", "label_woken")
  /\ UNCHANGED <<nextFrame, bufData, produced, curLabel, curPicture, sampleRate,
                 rstart, rsnap, rret, rcVars, scanVars, wavHeader, castVars>>

\* an on_new_audio that stores the frame and wakes nobody
OnNewAudioSilent(rate) ==
  /\ produced < MaxFrames
  /\ sampleRate' = rate
  /\ produced' = produced + 1
  /\ bufData' = [bufData EXCEPT ![nextFrame] = <<produced + 1>>]
  /\ nextFrame' = (nextFrame + 1) % BUFFER_SIZE
  /\ UNCHANGED <<deleteInProgress, evSet, curLabel, curPicture, rpc, rstart, rsnap, rret,
                 rcVars, scanVars, wavHeader, castVars>>

OnNewAudio(rate) ==
  /\ produced < MaxFrames
  /\ sampleRate' = rate
  /\ produced' = produced + 1
  /\ bufData' = [bufData EXCEPT ![nextFrame] = <<produced + 1>>]
  /\ nextFrame' = (nextFrame + 1) % BUFFER_SIZE
  /\ rpc' = IF ~deleteInProgress THEN Wake(rpc, "audio_wait", "audio_woken") ELSE rpc
  /\ UNCHANGED <<deleteInProgress, evSet, curLabel, curPicture, rstart, rsnap, rret,
                 rcVars, scanVars, wavHeader, castVars>>

\* an on_new_dynamic_label that stores the label and wakes nobody
OnNewDynamicLabelSilent ==
  /\ curLabel < MaxMeta
  /\ curLabel' = curLabel + 1
  /\ UNCHANGED <<nextFrame, bufData, produced, deleteInProgress, evSet, curPicture,
                 sampleRate, rpc, rstart, rsnap, rret, rcVars, scanVars, wavHeader, castVars>>

OnNewDynamicLabel ==
  /\ curLabel < MaxMeta
  /\ curLabel' = curLabel + 1
  /\ rpc' = IF ~deleteInProgress THEN Wake(rpc, "label_wait", "label_woken") ELSE rpc
  /\ UNCHANGED <<nextFrame, bufData, produced, deleteInProgress, evSet, curPicture,
                 sampleRate, rstart, rsnap, rret, rcVars, scanVars, wavHeader, castVars>>

OnMot ==
  /\ curPicture < MaxMeta
  /\ curPicture' = curPicture + 1
  /\ rpc' = IF ~deleteInProgress THEN Wake(rpc, "picture_wait", "picture_woken") ELSE rpc
  /\ UNCHANGED <<nextFrame, bufData, produced, deleteInProgress, evSet, curLabel,
                 sampleRate, rstart, rsnap, rret, rcVars, scanVars, wavHeader, castVars>>

\* ------------------------------- DabServer.get_next_label / get_next_image
\* the radio controller's lookup of the service's controller: the controller
\* is in the map from its registration until _unsubscribe releases its
\* waiters and deletes it, in one step
GetServiceController == ~deleteInProgress

NotFound == [kind |-> "notfound", start |-> 0, new |-> 0, bytes |-> <<>>, version |-> 0,
   rate |-> 0]

\* the HTTP status that answers a long-poll whose call returned ret
Status(ret) ==
  CASE ret.kind = "notfound" -> 404
    [] ret.kind = "unsubscribed" -> 400
    [] ret.kind \in {"label", "picture"} -> 200
    [] ret.kind = "error" -> 500
    [] OTHER -> 0

\* get_next_label / get_next_image up to the suspension or to the answer
GetNext(r, kind) ==
  IF GetServiceController
  THEN NewMeta(r, kind)
  ELSE /\ rpc[r] = "idle"
       /\ rpc' = [rpc EXCEPT ![r] = "returned"]
       /\ rret' = [rret EXCEPT ![r] = NotFound]
       /\ UNCHANGED <<nextFrame, bufData, produced, deleteInProgress, evSet, curLabel,
                      curPicture, sampleRate, rstart, rsnap, rcVars, scanVars, wavHeader, castVars>>

\* ---------------------------- DabServer.get_current_label / get_current_image
\* the handler raised an exception that is no HTTP exception
ServerError == [kind |-> "error", start |-> 0, new |-> 0, bytes |-> <<>>, version |-> 0,
   rate |-> 0]

\* data.picture is an attribute only once on_mot has stored a picture:
\* ServiceData.__init__ annotates it and assigns nothing
HasPicture == curPicture > 0

\* get_current_label / get_current_image, from the request to the answer
GetCurrent(r, kind) ==
  /\ rpc[r] = "idle"
  /\ rpc' = [rpc EXCEPT ![r] = "returned"]
  /\ rret' = [rret EXCEPT ![r] =
                IF ~GetServiceController THEN NotFound
                ELSE IF kind = "label" THEN MetaRet("label", curLabel)
                ELSE IF ~HasPicture THEN ServerError
                ELSE MetaRet("picture", curPicture)]
  /\ UNCHANGED <<nextFrame, bufData, produced, deleteInProgress, evSet, curLabel,
                 curPicture, sampleRate, rstart, rsnap, rcVars, scanVars, wavHeader, castVars>>

\* --------------------------------------------------------------- MpdCaster
\* mpdcast/mpd_caster.py. The songs of the player: 1 is a file of the
\* library, 2 the stream of a DAB station (DabserverStation.initialize() can
\* be true for it), 3 a channel of TvHeadend (TvheadendChannel.initialize()
\* can be true for it); NoSong is '' and the empty dict, both falsy.
NoSong == 0
Songs == {1, 2, 3}
IsDabStation(song) == song = 2
IsTvhChannel(song) == song = 3

\* _updater and _dabserver_current_station with nothing in them, and no update
\* task alive. alive counts the tasks of each kind that have been created and
\* have neither ended nor been cancelled (the model stops counting at 2);
\* tvhPc is where the EPG timer task is: in its sleep or in its dispatch.
NoUpdater ==
  [tvh_show |-> FALSE, dab_label |-> FALSE, dab_image |-> FALSE, station |-> FALSE,
   alive |-> [tvh |-> 0, label |-> 0, image |-> 0], tvhPc |-> "sleep"]

\* Task.cancel() through a reference: the task it refers to is the one
\* created last
Cancelled(ref, n) == IF ref /\ n > 0 THEN n - 1 ELSE n
Created(n) == IF n < 2 THEN n + 1 ELSE 2

\* a _stop_update_tasks that leaves the EPG timer alone
StopUpdateTasksButTimer(u) ==
  [u EXCEPT !.dab_label = FALSE, !.dab_image = FALSE, !.station = FALSE,
            !.alive = [tvh |-> u.alive.tvh,
                       label |-> Cancelled(u.dab_label, u.alive.label),
                       image |-> Cancelled(u.dab_image, u.alive.image)]]

StopUpdateTasks(u) ==
  [tvh_show |-> FALSE, dab_label |-> FALSE, dab_image |-> FALSE, station |-> FALSE,
   alive |-> [tvh |-> Cancelled(u.tvh_show, u.alive.tvh),
              label |-> Cancelled(u.dab_label, u.alive.label),
              image |-> Cancelled(u.dab_image, u.alive.image)],
   tvhPc |-> "sleep"]

\* the tasks that _handle_mpd_new_song attaches for a song: ok is the answer
\* of initialize() of the connector the song belongs to, remaining whether
\* the show has time remaining
Attached(u, song, ok, remaining) ==
  IF u.station THEN u
  ELSE IF IsTvhChannel(song) /\ ok
  THEN IF remaining
       THEN [u EXCEPT !.tvh_show = TRUE, !.alive.tvh = Created(@), !.tvhPc = "sleep"]
       ELSE u
  ELSE IF IsDabStation(song) /\ ok
  THEN [u EXCEPT !.station = TRUE, !.dab_label = TRUE, !.dab_image = TRUE,
                 !.alive.label = Created(@), !.alive.image = Created(@)]
  ELSE u

InitCast ==
  /\ mpdPlayer = [state |-> FALSE, song |-> NoSong, changed |-> FALSE]
  /\ castDev = [chromecast |-> FALSE, controller |-> FALSE, appLocal |-> FALSE,
                mediaEvent |-> FALSE, sessionId |-> FALSE]
  /\ mirror = [pc |-> "find", ignore |-> FALSE, active |-> FALSE,
               processed |-> NoSong, playing |-> FALSE, song |-> NoSong]
  /\ updater = NoUpdater
  /\ castLog = <<>>

\* a stop-play that leaves the update tasks running
HandleMpdStopPlayOnly(w) ==
  LET quit == w[1].chromecast /\ w[1].appLocal
  IN  << [w[1] EXCEPT !.appLocal = IF quit THEN FALSE ELSE @], w[2],
         w[3] \o <<"stop_play">> \o (IF quit THEN <<"quit_app">> ELSE <<>>) >>

\* an ignore rule that stays on once it is on
IgnoreForGood(ignore, playing) == ignore

\* "continue to ignore playback if we ignored until now and MPD is still
\* playing"
IgnoreCurrentPlayback(ignore, playing) == ignore /\ playing

\* _handle_mpd_stop_play: _stop_update_tasks, and quit_app if the app on the
\* device is ours. w is <<castDev, updater, castLog>>.
HandleMpdStopPlay(w) ==
  LET quit == w[1].chromecast /\ w[1].appLocal
  IN  << [w[1] EXCEPT !.appLocal = IF quit THEN FALSE ELSE @],
         StopUpdateTasks(w[2]),
         w[3] \o <<"stop_play">> \o (IF quit THEN <<"quit_app">> ELSE <<>>) >>

\* the end of _handle_mpd_new_song: set_music_track_media_metadata, if the
\* handles are there
Dispatch(log) ==
  log \o (IF castDev.chromecast /\ castDev.controller THEN <<"set_metadata">> ELSE <<>>)

\* waitfor_and_register_castdevice: the handles are kept if there are any,
\* else the device is found and registered, and a foreign app on it is quit
WaitforAndRegister(foreign) ==
  /\ mirror.pc = "find"
  /\ mirror' = [mirror EXCEPT !.pc = "begin"]
  /\ IF castDev.chromecast
     THEN castDev' = castDev /\ castLog' = <<>>
     ELSE /\ castDev' = [castDev EXCEPT !.chromecast = TRUE, !.controller = TRUE,
                                        !.appLocal = FALSE]
          /\ castLog' = IF foreign THEN <<"quit_app">> ELSE <<>>
  /\ UNCHANGED <<mpdPlayer, updater, rcVars, scanVars, svcVars>>

\* cast_until_connection_lost up to the loop: the initial status
MirrorBegin ==
  /\ mirror.pc = "begin"
  /\ mirror' = [pc |-> "idle", ignore |-> mpdPlayer.state, active |-> FALSE,
                processed |-> NoSong, playing |-> FALSE, song |-> NoSong]
  /\ castLog' = <<>>
  /\ UNCHANGED <<mpdPlayer, castDev, updater, rcVars, scanVars, svcVars>>

\* idle() reports a change
MirrorIdle ==
  /\ mirror.pc = "idle" /\ mpdPlayer.changed
  /\ mpdPlayer' = [mpdPlayer EXCEPT !.changed = FALSE]
  /\ mirror' = [mirror EXCEPT !.pc = "status"]
  /\ castLog' = <<>>
  /\ UNCHANGED <<castDev, updater, rcVars, scanVars, svcVars>>

\* the loop body from the answer of status() to the next suspension
MirrorStatus ==
  /\ mirror.pc = "status"
  /\ LET playing == mpdPlayer.state
         ignore  == IgnoreCurrentPlayback(mirror.ignore, playing)
         m1      == [mirror EXCEPT !.playing = playing]
     IN  IF ~castDev.chromecast
         THEN LET w == IF mirror.active THEN HandleMpdStopPlay(<<castDev, updater, <<>>>>)
                       ELSE <<castDev, updater, <<>>>>
              IN  /\ castDev' = w[1] /\ updater' = w[2] /\ castLog' = w[3]
                  /\ mirror' = [m1 EXCEPT !.pc = "find"]
         ELSE IF ignore
         THEN /\ mirror' = [m1 EXCEPT !.pc = "idle", !.ignore = TRUE]
              /\ castLog' = <<>>
              /\ UNCHANGED <<castDev, updater>>
         ELSE IF ~mirror.active /\ playing
         THEN \* _handle_mpd_start_play
              IF ~(castDev.chromecast /\ castDev.controller)
              THEN /\ mirror' = [m1 EXCEPT !.pc = "song", !.ignore = FALSE, !.active = TRUE]
                   /\ castLog' = <<"start_play">>
                   /\ UNCHANGED <<castDev, updater>>
              ELSE /\ castLog' = <<"start_play", "play_media">>
                   /\ updater' = updater
                   /\ IF castDev.mediaEvent /\ castDev.sessionId
                      THEN /\ castDev' = [castDev EXCEPT !.mediaEvent = FALSE, !.appLocal = TRUE]
                           /\ mirror' = [m1 EXCEPT !.pc = "song", !.ignore = FALSE,
                                                   !.active = TRUE]
                      ELSE /\ castDev' = [castDev EXCEPT !.mediaEvent = FALSE, !.appLocal = TRUE]
                           /\ mirror' = [m1 EXCEPT !.pc = "start", !.ignore = FALSE]
         ELSE IF mirror.active /\ ~playing
         THEN LET w == HandleMpdStopPlay(<<castDev, updater, <<>>>>)
              IN  /\ castDev' = w[1] /\ updater' = w[2] /\ castLog' = w[3]
                  /\ mirror' = [m1 EXCEPT !.pc = "song", !.ignore = FALSE,
                                          !.processed = NoSong, !.active = FALSE]
         ELSE /\ mirror' = [m1 EXCEPT !.pc = "song", !.ignore = FALSE]
              /\ castLog' = <<>>
              /\ UNCHANGED <<castDev, updater>>
  /\ UNCHANGED <<mpdPlayer, rcVars, scanVars, svcVars>>

\* _handle_mpd_start_play after media_event.wait(): until media_status has a
\* media_session_id
MirrorStartWoken ==
  /\ mirror.pc = "start" /\ castDev.mediaEvent
  /\ castDev' = [castDev EXCEPT !.mediaEvent = FALSE]
  /\ mirror' = IF castDev.sessionId THEN [mirror EXCEPT !.pc = "song", !.active = TRUE]
               ELSE mirror
  /\ castLog' = <<>>
  /\ UNCHANGED <<mpdPlayer, updater, rcVars, scanVars, svcVars>>

\* the loop body from the answer of currentsong() on: into _handle_mpd_new_song
\* up to its first await, or back to idle()
MirrorSong ==
  /\ mirror.pc = "song"
  /\ LET song == mpdPlayer.song
     IN  IF mirror.active /\ song # NoSong /\ song # mirror.processed
         THEN /\ mirror' = [mirror EXCEPT !.pc = "new_song", !.song = song]
              /\ updater' = StopUpdateTasks(updater)
              /\ castLog' = <<"new_song">>
         ELSE /\ mirror' = [mirror EXCEPT !.pc = "idle", !.song = song]
              /\ castLog' = <<>>
              /\ updater' = updater
  /\ UNCHANGED <<mpdPlayer, castDev, rcVars, scanVars, svcVars>>

\* _handle_mpd_new_song from its awaits to its end, and the loop to idle()
MirrorNewSong(ok, remaining) ==
  /\ mirror.pc = "new_song"
  /\ updater' = Attached(updater, mirror.song, ok, remaining)
  /\ castLog' = Dispatch(<<>>)
  /\ mirror' = [mirror EXCEPT !.pc = "idle", !.processed = mirror.song]
  /\ UNCHANGED <<mpdPlayer, castDev, rcVars, scanVars, svcVars>>

\* _check_new_dab_label / _check_new_dab_image: the station has news
DabUpdate ==
  /\ updater.alive.label > 0 \/ updater.alive.image > 0
  /\ updater.station
  /\ castLog' = Dispatch(<<"dynamic_update">>)
  /\ UNCHANGED <<mpdPlayer, castDev, mirror, updater, rcVars, scanVars, svcVars>>

\* _handle_mpd_new_song_delayed: the sleep is over, and the timer task is in
\* _handle_mpd_new_song(song_info, True) up to its await
TvhTimer ==
  /\ updater.alive.tvh > 0 /\ updater.tvhPc = "sleep" /\ ~updater.station
  /\ updater' = [updater EXCEPT !.tvhPc = "dispatch"]
  /\ castLog' = <<>>
  /\ UNCHANGED <<mpdPlayer, castDev, mirror, rcVars, scanVars, svcVars>>

\* the timer task from the answer of the connector to its end: it attaches
\* its successor, dispatches and is over
TvhDispatched(ok, remaining) ==
  /\ updater.alive.tvh > 0 /\ updater.tvhPc = "dispatch"
  /\ LET u == Attached(updater, 3, ok, remaining)
     IN  updater' = [u EXCEPT !.alive.tvh = @ - 1, !.tvhPc = "sleep"]
  /\ castLog' = Dispatch(<<"dynamic_update">>)
  /\ UNCHANGED <<mpdPlayer, castDev, mirror, rcVars, scanVars, svcVars>>

\* a stop that cancels the main task and runs nothing after it
CasterStopBare ==
  /\ mirror.pc # "stopped"
  /\ mirror' = [mirror EXCEPT !.pc = "stopped"]
  /\ castLog' = <<>>
  /\ UNCHANGED <<mpdPlayer, castDev, updater, rcVars, scanVars, svcVars>>

\* MpdCaster.stop: the main task is cancelled where it is suspended; inside
\* cast_until_connection_lost run() stops play before it re-raises
CasterStop ==
  /\ mirror.pc # "stopped"
  /\ IF mirror.pc = "find"
     THEN castDev' = castDev /\ updater' = updater /\ castLog' = <<>>
     ELSE LET w == HandleMpdStopPlay(<<castDev, updater, <<>>>>)
          IN  castDev' = w[1] /\ updater' = w[2] /\ castLog' = w[3]
  /\ mirror' = [mirror EXCEPT !.pc = "stopped"]
  /\ UNCHANGED <<mpdPlayer, rcVars, scanVars, svcVars>>

\* mpd.base.ConnectionError out of an await on the MPD client inside the loop
MpdConnectionError ==
  /\ mirror.pc \in {"idle", "status", "song", "new_song"}
  /\ LET w == HandleMpdStopPlay(<<castDev, updater, <<>>>>)
     IN  castDev' = w[1] /\ updater' = w[2] /\ castLog' = w[3]
  /\ mirror' = [mirror EXCEPT !.pc = "find"]
  /\ UNCHANGED <<mpdPlayer, rcVars, scanVars, svcVars>>

\* the player changes its state or its song
PlayerChange(state, song) ==
  /\ <<state, song>> # <<mpdPlayer.state, mpdPlayer.song>>
  /\ mpdPlayer' = [state |-> state, song |-> song, changed |-> TRUE]
  /\ castLog' = <<>>
  /\ UNCHANGED <<castDev, mirror, updater, rcVars, scanVars, svcVars>>

\* new_connection_status with LOST
NewConnectionStatus ==
  /\ castDev.chromecast
  /\ castDev' = [castDev EXCEPT !.chromecast = FALSE, !.controller = FALSE]
  /\ castLog' = <<>>
  /\ UNCHANGED <<mpdPlayer, mirror, updater, rcVars, scanVars, svcVars>>

\* new_media_status from the connected device, with or without a session id
NewMediaStatus(sid) ==
  /\ castDev.chromecast /\ castDev.controller
  /\ <<sid, sid \/ castDev.mediaEvent>> # <<castDev.sessionId, castDev.mediaEvent>>
  /\ castDev' = [castDev EXCEPT !.sessionId = sid, !.mediaEvent = sid \/ @]
  /\ castLog' = <<>>
  /\ UNCHANGED <<mpdPlayer, mirror, updater, rcVars, scanVars, svcVars>>

\* ------------------------------------------------------- specifications
Init == InitRc /\ InitScan /\ InitSc /\ InitCast

\* the calls on the radio controller; RQ is the requests that come in, each
\* one <<client, channel, service name>>, and CL the clients that make them
NextRc(RQ, CL) ==
  \/ \E rq \in RQ, tuneOk \in BOOLEAN, drvOk \in BOOLEAN :
       Subscribe(rq[1], rq[2], rq[3], tuneOk, drvOk)
  \/ \E rq \in RQ : SubscribeWait(rq[1], rq[2], rq[3])
  \/ \E c \in CL, tuneOk \in BOOLEAN, drvOk \in BOOLEAN : SubscribeGo(c, tuneOk, drvOk)
  \/ \E c \in CL : SubscribeAbandon(c)
  \/ \E c \in CL, drvOk \in BOOLEAN : SubscribePoll(c, drvOk)
  \/ \E c \in CL : SubscribeCancel(c)
  \/ \E c \in CL : Unsubscribe_program(c)
  \/ \E c \in CL : UnsubscribeWait(c)
  \/ \E c \in CL : UnsubscribeGo(c)
  \/ \E c \in CL : StreamUnsubscribed(c)
  \/ Stop
  \/ StopWait
  \/ StopGo
  \/ \E t \in TaskIds : TaskStart(t)
  \/ \E t \in TaskIds : TimerFire(t)
  \/ \E t \in TaskIds : TaskResume(t)
  \/ \E t \in TaskIds : TaskTimeout(t)
  \/ \E t \in TaskIds : TaskGo(t)
  \/ RemoveRef
  \/ \E sid \in Sids : OnServiceDetected(sid)

\* one listener, who asks for service S on channel A and is alone on the
\* subscription lock but for the deferred-reset task
NextOne(c) ==
  \/ \E tuneOk \in BOOLEAN, drvOk \in BOOLEAN : Subscribe(c, "A", <<"S">>, tuneOk, drvOk)
  \/ \E drvOk \in BOOLEAN : SubscribePoll(c, drvOk)
  \/ SubscribeCancel(c)
  \/ Unsubscribe_program(c)
  \/ UnsubscribeWait(c)
  \/ UnsubscribeGo(c)
  \/ \E t \in TaskIds : TaskStart(t)
  \/ \E t \in TaskIds : TimerFire(t)
  \/ \E t \in TaskIds : TaskResume(t)
  \/ \E t \in TaskIds : TaskTimeout(t)
  \/ \E t \in TaskIds : TaskGo(t)
  \/ RemoveRef
  \/ \E sid \in Sids : OnServiceDetected(sid)

NextScan ==
  \/ StartScan
  \/ ScanBegin
  \/ \E sig \in BOOLEAN : OnSignalPresence(sig)
  \/ ScanSignalled
  \/ ScanDiscovered
  \/ \E sid \in Sids : ScanServiceDetected(sid)
  \/ StopScan
  \/ ScanCancelled

\* the tuner between the scanner and the radio controller: one listener, who
\* asks for service S on channel A, next to the scanner; stop() of the radio
\* controller is followed in the specifications below
Next == NextOne("c1") \/ NextScan

Spec == Init /\ [][Next]_vars

\* the radio controller with two listeners: one asks for S on channel A or
\* on channel B, the other for S or T on channel A
Requests ==
  {<<"c1", "A", <<"S">>>>, <<"c1", "B", <<"S">>>>,
   <<"c2", "A", <<"S">>>>, <<"c2", "A", <<"T">>>>}
NextListen == NextRc(Requests, Clients)

SpecRc == Init /\ [][NextListen]_vars

\* the requests as DabServer.get_audio brings them to the radio controller,
\* with stop() as the only teardown: one listener asks for S on channel A or
\* on channel B, the other for S on channel A
SrvRequests ==
  {<<"c1", "A", <<"S">>>>, <<"c1", "B", <<"S">>>>, <<"c2", "A", <<"S">>>>}
NextSrv ==
  \/ \E rq \in SrvRequests, tuneOk \in BOOLEAN, drvOk \in BOOLEAN :
       GetAudio(rq[1], rq[2], rq[3], tuneOk, drvOk)
  \/ \E rq \in SrvRequests : GetAudioBusy(rq[1], rq[2], rq[3])
  \/ \E c \in Clients, tuneOk \in BOOLEAN, drvOk \in BOOLEAN : GetAudioRetry(c, tuneOk, drvOk)
  \/ \E c \in Clients : GetAudioAbandon(c)
  \/ \E c \in Clients, tuneOk \in BOOLEAN, drvOk \in BOOLEAN : SubscribeGo(c, tuneOk, drvOk)
  \/ \E c \in Clients : SubscribeAbandon(c)
  \/ \E c \in Clients, drvOk \in BOOLEAN : SubscribePoll(c, drvOk)
  \/ \E c \in Clients : SubscribeCancel(c)
  \/ \E c \in Clients : StreamCancelled(c)
  \/ \E c \in Clients : StreamUnsubscribed(c)
  \/ Stop
  \/ StopWait
  \/ StopGo
  \/ \E t \in TaskIds : TaskStart(t)
  \/ \E t \in TaskIds : TimerFire(t)
  \/ \E t \in TaskIds : TaskResume(t)
  \/ \E t \in TaskIds : TaskTimeout(t)
  \/ \E t \in TaskIds : TaskGo(t)
  \/ RemoveRef
  \/ \E sid \in Sids : OnServiceDetected(sid)

SpecSrv == Init /\ [][NextSrv]_vars

\* get_audio from its front door, with requests for a cover, and the server's
\* stop
DoorRequests ==
  {<<"c1", "A", <<"S">>>>, <<"c1", "A", CoverPrefix \o <<"S">>>>,
   <<"c2", "A", <<"S">>>>, <<"c2", "B", <<"S">>>>, <<"c2", "B", CoverPrefix>>}
NextDoor ==
  \/ \E rq \in DoorRequests, tuneOk \in BOOLEAN, drvOk \in BOOLEAN :
       FrontDoor(rq[1], rq[2], rq[3], tuneOk, drvOk)
  \/ ServerStop
  \/ \E c \in Clients, tuneOk \in BOOLEAN, drvOk \in BOOLEAN : GetAudioRetry(c, tuneOk, drvOk)
  \/ \E c \in Clients, tuneOk \in BOOLEAN, drvOk \in BOOLEAN : SubscribeGo(c, tuneOk, drvOk)
  \/ \E c \in Clients, drvOk \in BOOLEAN : SubscribePoll(c, drvOk)
  \/ \E c \in Clients : StreamCancelled(c)
  \/ \E t \in TaskIds : TaskStart(t)
  \/ \E t \in TaskIds : TimerFire(t)
  \/ \E t \in TaskIds : TaskResume(t)
  \/ \E t \in TaskIds : TaskTimeout(t)
  \/ \E t \in TaskIds : TaskGo(t)
  \/ RemoveRef
  \/ \E sid \in Sids : OnServiceDetected(sid)

SpecDoor == Init /\ [][NextDoor]_vars

\* one ServiceController with its producer and its readers
NextSc ==
  \/ \E r \in Readers : NewAudio(r)
  \/ \E r \in Readers : NewAudioResume(r)
  \/ \E r \in Readers, kind \in {"label", "picture"} : NewMeta(r, kind)
  \/ \E r \in Readers, kind \in {"label", "picture"} : NewMetaResume(r, kind)
  \/ \E r \in Readers : Consume(r)
  \/ ReleaseWaiters
  \/ \E rate \in Rates : OnNewAudio(rate)
  \/ OnNewDynamicLabel
  \/ OnMot

SpecSc == Init /\ [][NextSc]_vars

\* the cast bridge with its player and its cast device
NextMirror ==
  \/ \E foreign \in BOOLEAN : WaitforAndRegister(foreign)
  \/ MirrorBegin
  \/ MirrorIdle
  \/ MirrorStatus
  \/ MirrorStartWoken
  \/ MirrorSong
  \/ \E ok \in BOOLEAN, remaining \in BOOLEAN : MirrorNewSong(ok, remaining)
  \/ DabUpdate
  \/ TvhTimer
  \/ \E ok \in BOOLEAN, remaining \in BOOLEAN : TvhDispatched(ok, remaining)
  \/ MpdConnectionError
  \/ \E state \in BOOLEAN, song \in {NoSong} \cup Songs : PlayerChange(state, song)
  \/ NewConnectionStatus
  \/ \E sid \in BOOLEAN : NewMediaStatus(sid)

SpecMirror == Init /\ [][NextMirror]_vars

\* the same, where every call of the loop that can return does return, and
\* the player keeps changing
MirrorRuns ==
  \/ \E foreign \in BOOLEAN : WaitforAndRegister(foreign)
  \/ MirrorBegin \/ MirrorIdle \/ MirrorStatus \/ MirrorStartWoken
  \/ MirrorSong \/ \E ok \in BOOLEAN, remaining \in BOOLEAN : MirrorNewSong(ok, remaining)
\* one listener and the deferred-reset task, which the event loop runs
\* whenever it can run: its start, its timer, its wake-up, its timeout
\* branch and its done-callback
DrainRuns ==
  \/ \E t \in TaskIds : TaskStart(t) \/ TimerFire(t) \/ TaskResume(t)
                         \/ TaskTimeout(t) \/ TaskGo(t)
  \/ RemoveRef

FairDrain == Init /\ [][NextOne("c1")]_vars /\ WF_vars(DrainRuns)

\* the tuner with the callbacks of the driver on their way through the event
\* loop: one listener who asks for S on channel A and finds the driver
\* willing, and the scanner; the callbacks followed are those for service 1
\* and the signal_presence of the scanner
CallbackSet ==
  [to : {"rc", "scanner"}, kind : {"service"}, sid : {1}, sig : {FALSE}, ch : Channels]
    \cup [to : {"scanner"}, kind : {"signal"}, sid : {0}, sig : BOOLEAN, ch : Channels]
NextLate ==
  \/ Subscribe("c1", "A", <<"S">>, TRUE, TRUE)
  \/ SubscribePoll("c1", TRUE)
  \/ \E t \in TaskIds : TaskStart(t)
  \/ \E t \in TaskIds : TimerFire(t)
  \/ \E t \in TaskIds : TaskTimeout(t)
  \/ RemoveRef
  \/ StartScan
  \/ ScanBegin
  \/ ScanSignalled
  \/ ScanDiscovered
  \/ \E m \in CallbackSet : EmitCallback(m)
  \/ \E m \in CallbackSet : DeliverCallback(m)

SpecLate == Init /\ [][NextLate]_vars

\* the cast bridge with its stop()
NextBridge == NextMirror \/ CasterStop

SpecBridge == Init /\ [][NextBridge]_vars

FairMirror ==
  /\ SpecMirror
  /\ WF_vars(MirrorRuns)
  /\ WF_vars(\E state \in BOOLEAN, song \in {NoSong} \cup Songs : PlayerChange(state, song))

\* the PCM streams of get_audio on one service
NextStream ==
  \/ \E r \in Readers : NewAudio(r)
  \/ \E r \in Readers : NewAudioResume(r)
  \/ \E r \in Readers : StreamWrite(r)
  \/ \E r \in Readers : StreamUnsubscribedError(r)
  \/ ReleaseWaiters
  \/ \E rate \in Rates : OnNewAudio(rate)

SpecStream == Init /\ [][NextStream]_vars

\* the long-polls of DabServer on one service, whose controller is registered
\* from the start
NextPoll ==
  \/ \E r \in Readers, kind \in {"label", "picture"} : GetNext(r, kind)
  \/ \E r \in Readers, kind \in {"label", "picture"} : NewMetaResume(r, kind)
  \/ \E r \in Readers : Consume(r)
  \/ ReleaseWaiters
  \/ OnNewDynamicLabel
  \/ OnMot

SpecPoll == Init /\ [][NextPoll]_vars

\* the long-polls together with the requests for the current label and image
NextCur ==
  \/ NextPoll
  \/ \E r \in Readers, kind \in {"label", "picture"} : GetCurrent(r, kind)

SpecCur == Init /\ [][NextCur]_vars

\* ================================================================ claims
\* ------------------------------------------------ what the claims speak of
\* subscribe_program of client c for channel ch runs in this step
SubscribeRuns(c, ch) ==
  /\ pc[c] \in {"idle", "sub_lock"}
  /\ \A d \in Procs \ {c} : pc'[d] = pc[d]
  /\ \/ \E name \in Names, tuneOk \in BOOLEAN, drvOk \in BOOLEAN :
          Subscribe(c, ch, name, tuneOk, drvOk)
     \/ /\ arg[c].ch = ch
        /\ \E tuneOk \in BOOLEAN, drvOk \in BOOLEAN : SubscribeGo(c, tuneOk, drvOk)

\* unsubscribe_program of client c runs in this step
UnsubscribeRuns(c) ==
  /\ pc[c] \in {"streaming", "unsub_lock"} /\ pc'[c] = "idle"
  /\ (Unsubscribe_program(c) \/ UnsubscribeGo(c))

\* client c's unsubscribe takes away the handler c listens to
TearsDown(c) ==
  /\ held[c] # NoHandler /\ handlers[SidOf(held[c])] = held[c]
  /\ handlers'[SidOf(held[c])] = NoHandler
  /\ UnsubscribeRuns(c)

\* task t, timed out and holding the lock, decides on its reset in this step
TimedReset(t) == (TaskTimeout(t) \/ TaskGo(t)) /\ task'[t].pc = "free"

\* the services with a registered handler, and those somebody listens to
Registered == {x \in Sids : handlers[x] # NoHandler}
Live == {x \in Registered : subscribers[handlers[x]] >= 1}
SubscriberCount(x) == IF handlers[x] = NoHandler THEN 0 ELSE subscribers[handlers[x]]

\* the device calls of the last step that touch the tuner
TunerCalls == {i \in 1..Len(drvLog) : drvLog[i].op \in {"set_channel", "aquire_now", "release"}}

\* a drain is pending and its timer has not expired
GraceWindow ==
  /\ torn # NoHandler /\ chanName # NoCh
  /\ \E t \in TaskIds : task[t].pc \in {"created", "waiting"}

\* ---------------------------------------------------------------- C1
\* C1: the scanner and the radio controller never tune, untune or release
\* the tuner while the other one holds the lease; in particular a subscribe
\* during a scan leaves the scanner's lease and tuning alone.
LeaseRespected ==
  \A i \in 1..Len(drvLog) :
    drvLog[i].op \in {"set_channel", "release"}
      => drvLog[i].lease \in {"none", drvLog[i].by}

\* ---------------------------------------------------------------- C2
\* C2: after an unsubscribe took the last listener away, the tuner is reset
\* (driver untuned, services map cleared, lease released) when the drain
\* timer has expired on the channel the drain was begun for, unless a
\* subscribe for that channel came before the expiry: then the tuner is not
\* reset under the listener that subscribe brought.
DrainYieldsToSubscribe ==
  [][\A t \in TaskIds :
       /\ (TimedReset(t) /\ torn # NoHandler /\ ~task[t].heard
             /\ chanName # NoCh /\ chanName = task[t].target)
            => (chanName' = NoCh /\ drvChannel' = NoCh /\ programs' = <<>> /\ owner' = "none")
       /\ (TimedReset(t) /\ torn # NoHandler /\ task[t].heard /\ Live # {})
            => (chanName' = chanName /\ drvChannel' = drvChannel /\ owner' = owner)]_vars

\* ---------------------------------------------------------------- C3
\* C3: the controller tunes a channel only when the driver is untuned; a
\* subscribe for another channel than the one whose release is pending first
\* untunes, clears the services map and releases the lease, and a drain
\* whose channel was released that way never resets the tuner afterwards.
OneChannelAtATime ==
  [][/\ \A i \in 1..Len(drvLog') :
          (drvLog'[i].op = "set_channel" /\ drvLog'[i].by = "rc" /\ drvLog'[i].ch # NoCh)
            => drvLog'[i].chan = NoCh
     /\ \A c \in Clients, ch \in Channels :
          (~cancelSet /\ chanName # NoCh /\ chanName # ch /\ SubscribeRuns(c, ch))
            => /\ Len(drvLog') >= 2
               /\ drvLog'[1].op = "set_channel" /\ drvLog'[1].ch = NoCh
               /\ drvLog'[2].op = "release"
               /\ programs' = <<>>
     /\ \A t \in TaskIds :
          (TimedReset(t) /\ task[t].stale) => (chanName' = chanName /\ owner' = owner)]_vars

\* ---------------------------------------------------------------- C4
\* C4: a service has a registered handler exactly when its subscriber count
\* is at least 1.
ControllerIffSubscribed ==
  \A x \in Sids : (handlers[x] # NoHandler) <=> (SubscriberCount(x) >= 1)

\* ---------------------------------------------------------------- C5
\* C5: the services the driver delivers are exactly those with a registered
\* handler, and the driver is subscribed only for a service that had no
\* handler and unsubscribed only for one whose handler goes.
DriverMatchesControllers ==
  [][/\ drvSubs' = {x \in Sids : handlers'[x] # NoHandler}
     /\ \A i \in 1..Len(drvLog') :
          /\ drvLog'[i].op = "subscribe_program" => handlers[drvLog'[i].sid] = NoHandler
          /\ drvLog'[i].op = "unsubscribe_program" => handlers'[drvLog'[i].sid] = NoHandler]_vars

\* ---------------------------------------------------------------- C8
\* C8: when both clients stream a service they hold its one registered
\* handler, its count is 2 and the driver is subscribed for it; when one of
\* two leaves nothing else changes, and the handler is torn down and the
\* drain begun only when the last one leaves.
SharedStream ==
  [][/\ \A x \in Sids :
          (\A c \in Clients : pc'[c] = "streaming" /\ held'[c] = handlers'[x]
                               /\ handlers'[x] # NoHandler)
            => (x \in drvSubs' /\ subscribers'[handlers'[x]] = 2)
     /\ \A c \in Clients, x \in Sids :
          (UnsubscribeRuns(c) /\ held[c] = handlers[x] /\ handlers[x] # NoHandler
             /\ \A d \in Clients : pc[d] = "streaming" /\ held[d] = held[c])
            => /\ handlers' = handlers /\ drvSubs' = drvSubs /\ released' = released
               /\ task' = task /\ drvLog' = <<>>]_vars

\* ---------------------------------------------------------------- C9
\* C9: a subscribe for another channel than the tuned one, with no reset
\* pending, returns no handler and leaves the tuned channel, the lease, the
\* services map, the handlers, their counts and the driver's subscriptions
\* as they were; it asks nothing of the device.
RejectLeavesAllUntouched ==
  [][\A c \in Clients, ch \in Channels :
       (cancelSet /\ chanName # NoCh /\ chanName # ch /\ SubscribeRuns(c, ch))
         => /\ pc'[c] = "idle" /\ held'[c] = NoHandler
            /\ UNCHANGED <<owner, drvChannel, drvSubs, chanName, programs, handlers,
                           subscribers, released, cancelSet, task>>
            /\ \A i \in 1..Len(drvLog') : drvLog'[i].op = "warning"]_vars

\* a subscribe has just been turned away while somebody listens to the
\* tuned channel
RejectedWhileListening ==
  /\ \E i \in 1..Len(drvLog) : drvLog[i].op = "warning" /\ drvLog[i].ch # chanName
  /\ cancelSet /\ chanName # NoCh /\ Live # {}
  /\ \E c \in Clients : pc[c] = "idle"

NoDataAfterRelease ==
  [][\A r \in Readers :
       (deleteInProgress /\ rpc[r] # "returned" /\ rpc'[r] = "returned")
         => rret'[r].kind = "unsubscribed"]_vars

\* ---------------------------------------------------------------- C7
\* C7: the write cursor stays in [0, 10), and a new_audio(start) that returns
\* audio returns a cursor other than start together with the frames of the
\* slots from start up to that cursor, in the order they were produced.
AudioReadIsFresh ==
  /\ nextFrame \in Slots
  /\ \A r \in Readers :
       rret[r].kind = "audio"
         => /\ rret[r].new # rret[r].start
            /\ rret[r].new \in Slots
            /\ Len(rret[r].bytes) <= (rret[r].new - rret[r].start) % BUFFER_SIZE
            /\ \A i, j \in 1..Len(rret[r].bytes) :
                 i < j => rret[r].bytes[i] < rret[r].bytes[j]

\* ---------------------------------------------------------------- C11
\* stop() runs to its end in this step
StopRuns ==
  /\ pc[Admin] \in {"idle", "stop_lock"} /\ pc'[Admin] = "idle"
  /\ \A c \in Clients : pc'[c] = pc[c]
  /\ (Stop \/ StopGo)

\* C11: when stop() has run, no handler is registered and the driver
\* delivers no service, every handler that was registered has released its
\* waiters, no deferred reset is left, no channel is tuned and the radio
\* controller does not hold the lease.
StopLeavesNothing ==
  [][StopRuns
       => /\ \A x \in Sids : handlers'[x] = NoHandler
          /\ drvSubs' = {}
          /\ \A x \in Sids : handlers[x] # NoHandler => handlers[x] \in released'
          /\ \A t \in TaskIds : task'[t].pc = "free"
          /\ chanName' = NoCh /\ drvChannel' = NoCh
          /\ owner' # "rc"]_vars

\* ---------------------------------------------------------------- C12
\* what stop() is said to leave alone the second time: the tuner, the lease
\* and the controller's channel, services, handlers and counts
Tuner(s) ==
  [owner |-> s.owner, drv |-> s.drv, drvSubs |-> s.drvSubs, chan |-> s.chan,
   programs |-> s.programs, handlers |-> s.handlers,
   counts |-> [x \in Sids |-> IF s.handlers[x] = NoHandler THEN 0
                              ELSE s.subscribers[s.handlers[x]]]]

\* the controller is as __init__ left it
Fresh ==
  /\ chanName = NoCh /\ programs = <<>> /\ cancelSet
  /\ \A x \in Sids : handlers[x] = NoHandler
  /\ resetRef = NoTask /\ ~doneCb /\ \A t \in TaskIds : task[t].pc = "free"
  /\ lockHolder = "none"

\* C12: a second stop() right after a stop() finds nothing to change, and a
\* stop() of a controller that has done nothing changes nothing and asks
\* nothing of the device.
StopIdempotent ==
  [][StopRuns
       => /\ (lockHolder' = "none"
                => Tuner(StopBody([Cur EXCEPT !.lockH = Admin]))' = Tuner(Cur)')
          /\ (Fresh => (Tuner(Cur)' = Tuner(Cur) /\ drvLog' = <<>>))]_vars

\* ---------------------------------------------------------------- C13
\* a deferred reset of the tuned channel is pending: a task that is about to
\* begin its wait with no handler registered, or one that waits, or has
\* timed out, for the channel that is tuned
ReleasePending ==
  /\ chanName # NoCh
  /\ \E t \in TaskIds :
       \/ task[t].pc = "created" /\ Registered = {}
       \/ task[t].pc \in {"waiting", "timedout", "lockwait"} /\ task[t].target = chanName

\* C13: can_subscribe(channel) is true exactly when no channel is tuned, or
\* channel is the tuned one, or a deferred reset of the tuned channel is
\* pending.
CanSubscribeIffAcceptable ==
  \A ch \in Channels :
    CanSubscribe(ch) <=> (chanName = NoCh \/ chanName = ch \/ ReleasePending)

\* ---------------------------------------------------------------- C14
\* the owner of the lease after the i-th device call of the last step
OwnerAfter(i) == IF i < Len(drvLog) THEN drvLog[i + 1].lease ELSE owner

\* C14: the lease has one owner or none; aquire_now gives it only when it is
\* free and otherwise leaves the owner as it is; only a release by the owner
\* frees it, a release by anybody else leaves the owner as it is; no other
\* device call changes the owner.
LeaseHasOneOwner ==
  /\ owner \in {"none", "rc", "scanner"}
  /\ \A i \in 1..Len(drvLog) :
       LET e == drvLog[i]
       IN  /\ (e.op = "aquire_now" /\ e.lease = "none") => OwnerAfter(i) = e.by
           /\ (e.op = "aquire_now" /\ e.lease # "none") => OwnerAfter(i) = e.lease
           /\ (e.op = "release" /\ e.lease = e.by) => OwnerAfter(i) = "none"
           /\ (e.op = "release" /\ e.lease # e.by) => OwnerAfter(i) = e.lease
           /\ e.op \notin {"aquire_now", "release"} => OwnerAfter(i) = e.lease

\* ---------------------------------------------------------------- C15
\* client c's subscribe ends in this step without a handler
Rejected(c) == pc'[c] = "idle" /\ held'[c] = NoHandler

\* the last round of client c's wait for its service runs in this step and
\* does not find it
DiscoveryRunsOut(c) ==
  /\ pc[c] = "sub_poll" /\ arg[c].polls <= 1
  /\ GetProgramId(Cur, arg[c].name).pid = 0
  /\ \E drvOk \in BOOLEAN : SubscribePoll(c, drvOk)

\* C15: a subscribe while the scanner holds the lease is turned away and
\* changes nothing; a subscribe whose channel the driver refuses is turned
\* away with the lease released and no channel tuned; a subscribe whose
\* service does not show up is turned away with no count changed and a
\* deferred reset begun, and a deferred reset resets the tuner only when no
\* handler is registered.
FailedSubscribeIsClean ==
  [][/\ \A c \in Clients, ch \in Channels :
          (owner = "scanner" /\ SubscribeRuns(c, ch))
            => /\ Rejected(c)
               /\ UNCHANGED <<owner, drvChannel, drvSubs, chanName, programs,
                              handlers, subscribers>>
               /\ \A i \in 1..Len(drvLog') : drvLog'[i].op \notin {"set_channel", "release"}
     /\ \A c \in Clients, ch \in Channels :
          (SubscribeRuns(c, ch)
             /\ \E i \in 1..Len(drvLog') :
                  /\ drvLog'[i].op = "set_channel" /\ drvLog'[i].ch = ch
                  /\ i < Len(drvLog') /\ drvLog'[i + 1].op = "release")
            => (Rejected(c) /\ owner' = "none" /\ chanName' = NoCh)
     /\ \A c \in Clients :
          DiscoveryRunsOut(c)
            => /\ Rejected(c)
               /\ subscribers' = subscribers /\ handlers' = handlers
               /\ resetRef' \in TaskIds /\ task'[resetRef'].pc = "created"
     /\ \A t \in TaskIds :
          (TimedReset(t) /\ chanName' # chanName) => Registered = {}]_vars

\* a step in which the audio response of client c ends
StreamEnds(c) ==
  /\ pc[c] = "streaming" /\ pc'[c] = "idle"
  /\ (StreamCancelled(c) \/ StreamUnsubscribed(c))

\* C16: when an audio stream ends (the client cancelled, the connection was
\* reset, or the controller reported Unsubscribed) the handler unsubscribes
\* its service, so the subscriber count of a controller that is still live is
\* one lower afterwards, and the response does not end with a 5xx status.
StreamEndUnsubscribes ==
  [][\A c \in Clients : StreamEnds(c) =>
        /\ resp'[c] < 500
        /\ (held[c] \notin released =>
              /\ held[c] \in released' \/ subscribers'[held[c]] = subscribers[held[c]] - 1)]_vars

\* ---------------------------------------------------------------- C17
\* a request of client c arrives in this step
Arrives(c) == pc[c] = "idle" /\ (pc'[c] # "idle" \/ resp'[c] # 0)

\* the subscribe attempt of a request that has slept runs in this step
RetryRuns(c) ==
  /\ Waited(c) /\ pc[c] \in {"busy_wait", "sub_lock"}
  /\ \A d \in Procs \ {c} : pc'[d] = pc[d]
  /\ \E tuneOk \in BOOLEAN, drvOk \in BOOLEAN :
       \/ lockHolder = "none" /\ GetAudioRetry(c, tuneOk, drvOk)
       \/ SubscribeGo(c, tuneOk, drvOk)

\* C17: a request that arrives while can_subscribe refuses its channel sleeps,
\* once, and changes nothing by that; then subscribe is called once: a request
\* that has slept never sleeps again and a 503 ends it.  If the channel is
\* still refused when the attempt runs, the answer is 503 and the tuner, the
\* handlers, their counts, the other streams and the device are left alone.
\* A request whose channel can_subscribe accepts on arrival does not sleep.
BusyWaitsOnceThenOneAttempt ==
  [][\A c \in Clients :
       /\ (Arrives(c) /\ pc'[c] = "busy_wait") =>
             /\ chanName # NoCh /\ chanName # arg'[c].ch /\ cancelSet
             /\ Tuner(Cur)' = Tuner(Cur) /\ held' = held /\ drvLog' = <<>>
       /\ (Arrives(c) /\ pc'[c] # "busy_wait") =>
             \E rq \in Requests : rq[1] = c /\ (chanName \in {NoCh, rq[2]} \/ ~cancelSet)
       /\ (Arrives(c) /\ pc'[c] \in {"sub_lock", "sub_poll", "streaming"}) =>
             /\ ~arg'[c].waited
             /\ (chanName \in {NoCh, arg'[c].ch} \/ ~cancelSet)
       /\ (pc[c] # "idle" /\ pc'[c] = "busy_wait") => pc[c] = "busy_wait"
       /\ (Waited(c) /\ resp'[c] # 0) => pc'[c] = (IF resp'[c] = 200 THEN "streaming" ELSE "idle")
       /\ (RetryRuns(c) /\ chanName # NoCh /\ chanName # arg[c].ch /\ cancelSet) =>
             /\ resp'[c] = 503 /\ pc'[c] = "idle"
             /\ Tuner(Cur)' = Tuner(Cur) /\ held' = held
             /\ UNCHANGED <<released, cancelSet, task>>
             /\ \A i \in 1..Len(drvLog') : drvLog'[i].op = "warning"]_vars

\* a request for channel B has slept and has just been answered 503 while
\* the other client goes on streaming from channel A
TurnedAwayAfterWait ==
  /\ resp["c1"] = 503 /\ arg["c1"].waited /\ arg["c1"].ch = "B"
  /\ chanName = "A" /\ cancelSet
  /\ pc["c2"] = "streaming" /\ held["c2"] \notin released /\ held["c2"] # NoHandler

\* ---------------------------------------------------------------- C18
MetaWaits == {"label_wait", "picture_wait"}
MetaWoken == {"label_woken", "picture_woken"}

StartScanRefused == (scanTask \/ owner # "none") /\ StartScan

\* C19: start_scan while a scan is in progress, or while the lease is taken,
\* starts no scan: no task is created, the lease stays with its owner, the
\* tuner is not touched, the results collected before stay, and the call ends
\* in the step it began in, having asked the device for the lease at most.
RefusedStartChangesNothing ==
  [][StartScanRefused =>
       /\ UNCHANGED <<scanTask, scanPc, scanIdx, isSignal, scanResults>>
       /\ UNCHANGED <<owner, drvChannel, drvSubs, chanName, pc>>
       /\ \A i \in 1..Len(drvLog') : drvLog'[i].op = "aquire_now" /\ ~scanTask]_vars

\* a start_scan has just been refused because the radio controller holds the
\* lease, with the results of an earlier scan still there
StartRefusedByLease ==
  /\ \E i \in 1..Len(drvLog) :
       drvLog[i].op = "aquire_now" /\ drvLog[i].by = "scanner" /\ drvLog[i].lease = "rc"
  /\ owner = "rc" /\ ~scanTask /\ scanResults # <<>>

\* ---------------------------------------------------------------- C20
\* the texts the last step set as the scanner's status
StatusSet == {drvLog[i].ch : i \in {j \in 1..Len(drvLog) : drvLog[j].op = "ui_status"}}

\* C20: when the cancelled scan task takes its next step, the tuner is reset,
\* the lease is no longer the scanner's, the scanner is inactive, the status
\* says "Scan stopped" and the results collected so far are still in the
\* result map.
StopScanEndsScan ==
  [][(scanPc \in {"cancel_created", "cancelling"} /\ ScanCancelled) =>
       /\ drvChannel' = NoCh /\ owner' # "scanner"
       /\ ~scanTask' /\ scanPc' = "none"
       /\ "Scan stopped" \in StatusSet'
       /\ scanResults' = scanResults]_vars

\* ---------------------------------------------------------------- C21
\* _run_scan comes to its end in this step, not cancelled
ScanCompletes ==
  /\ scanTask /\ ~scanTask' /\ scanPc \in {"signalled", "discover"}
  /\ (ScanSignalled \/ ScanDiscovered)

\* the services of the result map that were given a name
NamedServices ==
  {<<ch, x>> \in Channels \X Sids :
     ch \in DOMAIN scanResults /\ x \in DOMAIN scanResults[ch] /\ scanResults[ch][x] # <<>>}

\* C21: while the scanner task exists status() reports the scan active and a
\* progress that does not go down from one step to the next; the step that
\* completes the scan sets download_ready to true and the status to "Scan
\* finished" with the number of services that were given a name.
ScanStatusFollowsScan ==
  [][/\ (scanTask /\ scanTask') => (IsScanActive /\ Progress' >= Progress)
     /\ ScanCompletes =>
          \E i, j \in 1..Len(drvLog') :
            /\ drvLog'[i].op = "download_ready" /\ drvLog'[i].sid = 1
            /\ drvLog'[j].op = "ui_status" /\ drvLog'[j].ch = "Scan finished"
            /\ drvLog'[j].sid = Cardinality(NamedServices')]_vars

\* ---------------------------------------------------------------- C22
\* C22: new_label and new_picture return a label or a picture only after a
\* wait, and then one that was delivered after the call began, never the one
\* that was there when the call was made; a call after the teardown fails with
\* UnsubscribedError; a delivery wakes every reader that waits for it.
MetaReadIsNext ==
  [][/\ \A r \in Readers :
          /\ rret'[r].kind \in {"label", "picture"} => rret'[r].version > rsnap'[r]
          /\ (rret'[r].kind \in {"label", "picture"} /\ rret[r].kind = "none") =>
               /\ rpc[r] \in MetaWoken
               /\ rret'[r].version = (IF rret'[r].kind = "label" THEN curLabel'
                                      ELSE curPicture')
          /\ (rpc[r] = "idle" /\ rpc'[r] \in MetaWaits \cup {"returned"} /\ deleteInProgress
                /\ rret'[r].kind # "audio") =>
               rret'[r].kind = "unsubscribed"
          /\ (curLabel' # curLabel /\ rpc[r] = "label_wait") => rpc'[r] = "label_woken"
          /\ (curPicture' # curPicture /\ rpc[r] = "picture_wait") => rpc'[r] = "picture_woken"]_vars

\* two readers that waited for the next label have both been given the label
\* that was delivered while they waited
BothGivenNextLabel ==
  \A r \in Readers : /\ rpc[r] = "returned" /\ rret[r].kind = "label"
                     /\ rret[r].version = 1 /\ rsnap[r] = 0

\* ---------------------------------------------------------------- C23
\* C23: a request for the current label or image is answered in the step it
\* arrives in: with 404 when the service has no controller, and for the image
\* also when no image has been stored yet; otherwise with 200 and the label or
\* image stored last.
CurrentNeverFails ==
  [][\A r \in Readers, kind \in {"label", "picture"} :
       GetCurrent(r, kind) =>
         /\ rpc'[r] = "returned"
         /\ IF deleteInProgress \/ (kind = "picture" /\ curPicture = 0)
            THEN Status(rret'[r]) = 404
            ELSE /\ Status(rret'[r]) = 200 /\ rret'[r].kind = kind
                 /\ rret'[r].version = (IF kind = "label" THEN curLabel ELSE curPicture)]_vars

\* ------------------------------------------------------------------- C24
\* an audio request that has been turned away at the front door
Rejected503(c) == pc[c] = "idle" /\ shutdownInProgress /\ resp'[c] # 0
Rejected404(c) == pc[c] = "idle" /\ resp'[c] = 404

\* a request is turned away while the other client's stream is running
TurnedAwayBesideStream ==
  /\ shutdownInProgress /\ resp["c1"] = 503
  /\ pc["c2"] = "streaming" /\ held["c2"] # NoHandler

\* C24: an audio request turned away at the front door never reaches
\* subscribe. While shutdown is in progress every request is answered 503,
\* whatever its service name; 404 at the front door is the answer to a name
\* that begins with "cover." and only when no shutdown is in progress. Either
\* answer leaves the tuner state, the lease, the subscriber counts, the lock
\* and every request in flight as they were, asks nothing of the device, and
\* the request that was turned away holds nothing and is over.
FrontDoorRejectsUntouched ==
  [][\A c \in Clients :
       /\ (pc[c] = "idle" /\ shutdownInProgress /\ (resp'[c] # 0 \/ pc'[c] # "idle"))
            => resp'[c] = 503
       /\ resp'[c] = 404 => ~shutdownInProgress
       /\ (Rejected503(c) \/ Rejected404(c)) =>
            /\ pc' = pc /\ arg' = arg /\ held' = held /\ torn' = torn
            /\ Tuner(Cur)' = Tuner(Cur)
            /\ subscribers' = subscribers /\ released' = released
            /\ lockHolder' = lockHolder /\ lockQueue' = lockQueue
            /\ task' = task /\ resetRef' = resetRef /\ cancelSet' = cancelSet
            /\ drvLog' = <<>>
       /\ pc'[c] # "idle" => ~StartsWith(arg'[c].name, CoverPrefix)]_vars

AnyTask == updater.alive.tvh + updater.alive.label + updater.alive.image > 0

\* what the last step ran or sent
InLog(x) == \E i \in DOMAIN castLog : castLog[i] = x
InLoop == mirror.pc \in {"idle", "status", "start", "song", "new_song"}

\* the step in which the loop has the answer of status(), with the device
\* there
Observes ==
  /\ mirror.pc = "status" /\ castDev.chromecast
  /\ mirror'.pc \in {"idle", "start", "song"}

\* the loop has been round for a player event and left the playback alone
PlaybackIgnored ==
  /\ mirror.pc = "idle" /\ mirror.ignore /\ mirror.playing
  /\ mpdPlayer.state /\ ~mpdPlayer.changed /\ castDev.chromecast

\* C26: the ignore rule is armed where the mirror run begins, and only there,
\* and exactly if the player is playing then. While it is armed no step starts
\* play, dispatches a track or updates metadata, no update task is alive and
\* the cast is inactive. It is taken off by the first observation of a player
\* that is not playing, and by nothing else; with the rule off and the cast
\* inactive, an observation of a playing player starts play.
IgnoreOnStartup ==
  [][/\ (mirror.pc = "begin" /\ mirror'.pc = "idle") => mirror'.ignore = mpdPlayer.state
     /\ (mirror'.ignore /\ ~mirror.ignore) => mirror.pc = "begin"
     /\ (mirror.ignore /\ InLoop) =>
          /\ mirror.pc \in {"idle", "status"}
          /\ ~mirror.active /\ ~AnyTask
          /\ \A x \in {"start_play", "play_media", "new_song", "set_metadata",
                       "dynamic_update"} : ~InLog(x)'
     /\ (mirror.ignore /\ InLoop /\ ~mirror'.ignore) =>
          mirror.pc = "status" /\ ~mpdPlayer.state /\ castDev.chromecast
     /\ (Observes /\ ~mpdPlayer.state) => ~mirror'.ignore
     /\ (Observes /\ ~mirror.ignore /\ ~mirror.active /\ mpdPlayer.state) =>
          InLog("start_play")']_vars

\* ------------------------------------------------------------------- C27
\* the loop takes its decision on an observation of the player, with the
\* device there and the playback not ignored
Decides == Observes /\ ~(mirror.ignore /\ mpdPlayer.state)

LostLeadsToRediscovery ==
  (InLoop /\ ~castDev.chromecast) ~> (mirror.pc = "find")

\* ------------------------------------------------------------------- C29
\* C29: a subscribe that is between two polls of the discovery wait does not
\* hold the subscription lock, so no subscribe, unsubscribe or deferred-reset
\* task waits for the lock because of it.
LockFreeWhilePolling ==
  \A c \in Clients : pc[c] = "sub_poll" => lockHolder # c

FreshDispatchAfterChannel ==
  /\ mirror.pc = "new_song" /\ InLog("new_song")
  /\ mirror.processed = 3 /\ mirror.song = 2

\* C31: a fresh dispatch of a new track leaves no task of the update trio
\* alive or referenced and no DAB station active, from its first step until
\* it attaches the tasks of the new track; a dynamic dispatch, run by a task
\* of the trio, cancels no task: the watchers and the station are as they
\* were, and of the timers only the one that ran the dispatch has ended.
FreshDispatchCancelsTrio ==
  [][/\ InLog("new_song")' => updater' = NoUpdater
     /\ mirror'.pc = "new_song" => updater' = NoUpdater
     /\ InLog("dynamic_update")' =>
          /\ updater'.alive.label = updater.alive.label
          /\ updater'.alive.image = updater.alive.image
          /\ updater'.dab_label = updater.dab_label
          /\ updater'.dab_image = updater.dab_image
          /\ updater'.station = updater.station
          /\ updater'.alive.tvh \in {updater.alive.tvh, updater.alive.tvh - 1}
          /\ updater'.alive.tvh = updater.alive.tvh - 1 => updater'.tvh_show = updater.tvh_show
          /\ mirror' = mirror]_vars

\* ------------------------------------------------------------------- C40
\* the cast bridge has been stopped while it was casting the stream of a DAB
\* station, and run() has stopped play
StoppedWhileCastingStation ==
  /\ mirror.pc = "stopped" /\ InLog("stop_play")
  /\ mirror.active /\ IsDabStation(mirror.processed)

\* C40: at most one task of each kind of the update trio is alive, it is the
\* one the updater refers to, and it belongs to the track dispatched last (a
\* timer to a channel of TvHeadend, the watchers to a DAB station, which is
\* then the active one); after stop-play, outside the mirror loop and after
\* the stop of the cast bridge no task is alive or referenced and no station
\* is active.
TrioOfCurrentTrack ==
  /\ updater.alive.tvh <= (IF updater.tvh_show THEN 1 ELSE 0)
  /\ updater.alive.label = (IF updater.dab_label THEN 1 ELSE 0)
  /\ updater.alive.image = (IF updater.dab_image THEN 1 ELSE 0)
  /\ updater.alive.tvh > 0 => IsTvhChannel(mirror.processed) /\ ~updater.station
  /\ updater.alive.label > 0 \/ updater.alive.image > 0 \/ updater.station =>
       /\ IsDabStation(mirror.processed)
       /\ updater.station /\ updater.dab_label /\ updater.dab_image
       /\ ~updater.tvh_show
  /\ AnyTask => mirror.pc \in {"idle", "status", "song"}
  /\ (InLog("stop_play") \/ mirror.pc \in {"find", "begin", "stopped"}) =>
       updater = NoUpdater

\* ------------------------------------------------------------------- C39
\* C39: start-play returns only after a media status with a media_session_id
\* that came in after its play_media: the step that sends play_media leaves
\* start-play waiting with the wake flag down, and start-play leaves its wait
\* only on a wake flag raised since, with a media_session_id in the status.
StartPlayAwaitsOwnStatus ==
  [][/\ InLog("play_media")' => (mirror'.pc = "start" /\ ~castDev'.mediaEvent)
     /\ (mirror.pc = "start" /\ mirror'.pc = "song") =>
          (castDev.mediaEvent /\ castDev.sessionId)]_vars

\* ------------------------------------------------------------------- C32
\* C32: a service that has a registered controller with at least one
\* subscriber keeps its tuner through the expiry of a drain timer: the step
\* in which a drain task acts on its timeout leaves the driver tuned to the
\* channel the radio controller has as its own, and the lease with the radio
\* controller.
LiveSubscriptionKeepsTuner ==
  [][\A t \in TaskIds :
       (TimedReset(t) /\ Live # {}) =>
         /\ owner' = "rc"
         /\ drvChannel' # NoCh /\ chanName' = drvChannel'
         /\ Live' = Live]_vars

\* ------------------------------------------------------------------- C33
\* the calls of the last step by which the radio controller untuned the
\* driver or released the lease without holding the lease
ForeignResets ==
  {i \in 1..Len(drvLog) :
     /\ drvLog[i].by = "rc" /\ drvLog[i].lease # "rc"
     /\ \/ drvLog[i].op = "release"
        \/ drvLog[i].op = "set_channel" /\ drvLog[i].ch = NoCh}

\* C33: a subscribe untunes the driver and releases the lease only while the
\* radio controller holds the lease, and it finds the event of the deferred
\* reset cleared only while a drain task is waiting for it or is about to
\* act on its timeout.
ResetsOnlyOwnTuner ==
  [][\A c \in Clients, ch \in Channels :
       SubscribeRuns(c, ch) =>
         /\ ForeignResets' = {}
         /\ ~cancelSet =>
              \E t \in TaskIds : task[t].pc \in {"waiting", "timedout", "lockwait"}]_vars

\* ------------------------------------------------------------------- C34
\* nobody listens and no call of a listener is in progress
Quiet == Live = {} /\ \A c \in Clients : pc[c] = "idle"

\* C34: the tuner is not leased for ever without listeners: if from some
\* point on nobody listens and no subscribe is made, then from some point on
\* the driver is untuned and the radio controller does not hold the lease.
IdleWithoutListeners ==
  <>[]Quiet => <>[](drvChannel = NoCh /\ owner # "rc")

\* ------------------------------------------------------------------- C35
\* the audio requests that stream from the controller with identity h
StreamingFrom(h) == {c \in Clients : pc[c] = "streaming" /\ held[c] = h}

\* C35: the subscriber count of a service controller is never below zero and
\* never above the number of audio requests that subscribed to it and have
\* not ended, and it is that number as long as the controller has not been
\* torn down.
CountMatchesRequests ==
  \A h \in HandlerIds :
    /\ subscribers[h] >= 0
    /\ subscribers[h] <= Cardinality(StreamingFrom(h))
    /\ (h \notin released /\ (\E x \in Sids : handlers[x] = h)) =>
         subscribers[h] = Cardinality(StreamingFrom(h))

\* ------------------------------------------------------------------- C36
\* C36: while no scan task exists that has a step left to run (none was
\* started, or the last one has finished or has ended by its cancellation),
\* the scanner does not hold the lease and start_scan does not find a scan in
\* progress.
NoScanNoLease ==
  scanPc \in {"none", "dead"} => (owner # "scanner" /\ ~scanTask)

\* ------------------------------------------------------------------- C37
\* C37: the services map of the radio controller holds only services of the
\* channel the radio controller is tuned to, and none when it is tuned to no
\* channel: a service_detected that runs after the reset adds nothing.
ServicesOfTunedChannel ==
  \A i \in 1..Len(programs) :
    chanName # NoCh /\ ChannelOf(programs[i].sid) = chanName

\* ------------------------------------------------------------------- C38
\* C38: every service in the scan results stands under the channel it is
\* broadcast on, and the signal_presence that ends the scanner's wait on a
\* channel was emitted while the driver was tuned to that channel.
ScanAttributesToTunedChannel ==
  [][/\ \A ch \in DOMAIN scanResults' :
          \A sid \in DOMAIN scanResults'[ch] : ChannelOf(sid) = ch
     /\ \A m \in CallbackSet :
          (DeliverCallback(m) /\ m.kind = "signal" /\ scanPc = "wait_signal") =>
            m.ch = AllChannelNames[scanIdx]]_vars
====
